---- MODULE Spec2Model ----
(***************************************************************************)
(* Social media stats scraper: the scrape orchestration of                 *)
(* src/scraper/api.py (HTTP entry points) and src/scraper/scraper.py       *)
(* (command-line entry points), the platform scrapers of                   *)
(* src/scraper/platforms, the rate limiter and the browser session         *)
(* helpers of src/scraper/utils.                                           *)
(***************************************************************************)
EXTENDS Integers, Sequences, FiniteSets, TLC

(***************************************************************************)
(* Bounds of the model.                                                    *)
(***************************************************************************)
\* longest URL list handed to a batch entry point
MaxUrls == 2
\* the limiter's request ceiling (RateLimiter(max_requests=...))
MaxRequests == 2
\* calls a client of the RateLimiter makes
MaxOps == 5
\* largest whole part of the numbers in the texts handed to _parse_count
MaxWhole == 9
\* longest list posted to /scrape/batch
MaxBatch == 11
\* scrape_urls calls made in one process
MaxCalls == 3
\* the ceiling of the process-wide limiter, standing for the default of 20
DefaultRequests == 3

(***************************************************************************)
(* Python values.  A JSON leaf is a tagged scalar, a JSON array is a       *)
(* wrapped sequence, a JSON object (dict) is a function on its keys.       *)
(* A numeric string "890" is PyStr(890); a float is kept in tenths.        *)
(***************************************************************************)
PyInt(n) == [t |-> "int", v |-> n]
PyFloat(tenths) == [t |-> "float", v |-> tenths]
PyStr(n) == [t |-> "str", v |-> n]
PyNone == [t |-> "none", v |-> 0]
PyList(s) == [list |-> s]
EmptyDict == [k \in {} |-> 0]

IsScalar(x) == DOMAIN x = {"t", "v"}
IsList(x) == DOMAIN x = {"list"}
IsDict(x) == ~IsScalar(x) /\ ~IsList(x)

\* dict.get(k, default)
Get(d, k, default) == IF k \in DOMAIN d THEN d[k] ELSE default

\* bool(x)
Truthy(x) ==
    IF IsScalar(x)
    THEN CASE x.t = "int" -> x.v # 0
           [] x.t = "float" -> x.v # 0
           [] x.t = "str" -> TRUE
           [] OTHER -> FALSE
    ELSE IF IsList(x) THEN Len(x.list) > 0
    ELSE DOMAIN x # {}

\* x > 0 raises TypeError unless x is a number
GtRaises(x) == ~IsScalar(x) \/ x.t \in {"str", "none"}
Gt0(x) == x.v > 0

\* a non-negative integer, as a StatRecord field must be
IsCount(x) == IsScalar(x) /\ x.t = "int" /\ x.v >= 0
\* the number zero (0 or 0.0)
IsZero(x) == IsScalar(x) /\ x.t \in {"int", "float"} /\ x.v = 0

Quad(vw, lk, cm, sh) == [views |-> vw, likes |-> lk, comments |-> cm, shares |-> sh]
ZeroQuad == Quad(PyInt(0), PyInt(0), PyInt(0), PyInt(0))

\* an Optional[dict] result
NoStats == [isNone |-> TRUE, q |-> ZeroQuad]
SomeStats(q) == [isNone |-> FALSE, q |-> q]

(***************************************************************************)
(* URLs.  A URL is known by the URL patterns that re.search finds in it:   *)
(* tt the TikTok patterns (1 watch URL, 2 vm.tiktok.com, 3 /t/ path), ig   *)
(* the Instagram patterns (1 /p/, 2 /reel/, 3 /reels/, 4 /tv/).            *)
(***************************************************************************)
UrlTikTok == [name |-> "tiktok.com/@user/video/123", tt |-> {1}, ig |-> {}, spaces |-> 0]
UrlInstagram == [name |-> "instagram.com/reel/abc", tt |-> {}, ig |-> {2}, spaces |-> 0]
UrlOther == [name |-> "example.com/watch", tt |-> {}, ig |-> {}, spaces |-> 0]
Urls == {UrlTikTok, UrlInstagram, UrlOther}
\* a TikTok address that carries an Instagram address in its query string
UrlBoth == [name |-> "tiktok.com/@user/video/123?ref=instagram.com/reel/abc",
            tt |-> {1}, ig |-> {2}, spaces |-> 0]

\* "spaces" counts the whitespace around the text of the URL: str.strip()
\* removes it, and a string is true unless it has no character at all
strip(url) == [url EXCEPT !.spaces = 0]
NonEmpty(url) == url.name # "" \/ url.spaces > 0

is_tiktok_url(url) == \E pattern \in 1..3 : pattern \in url.tt
is_instagram_url(url) == \E pattern \in 1..4 : pattern \in url.ig

\* a classifier that asks the Instagram scraper first
detect_platform_instagram_first(url) ==
    IF is_instagram_url(url) THEN "instagram"
    ELSE IF is_tiktok_url(url) THEN "tiktok"
    ELSE "unknown"

\* api.detect_platform
detect_platform(url) ==
    IF is_tiktok_url(url) THEN "tiktok"
    ELSE IF is_instagram_url(url) THEN "instagram"
    ELSE "unknown"

\* SocialMediaScraper.detect_platform returns None where the API's returns
\* 'unknown'; its callers test "not platform" and label the record 'unknown'
cli_detect_platform(url) ==
    IF is_tiktok_url(url) THEN "tiktok"
    ELSE IF is_instagram_url(url) THEN "instagram"
    ELSE "unknown"

Platforms == {"tiktok", "instagram"}

(***************************************************************************)
(* Intercepted JSON bodies the network may deliver.                        *)
(***************************************************************************)
TikTokStats(d) == [itemInfo |-> [itemStruct |-> [stats |-> d]]]
TikTokPayloads == <<
    TikTokStats([playCount |-> PyInt(12500), diggCount |-> PyInt(890),
                 commentCount |-> PyInt(45)]),
    TikTokStats([playCount |-> PyInt(0), diggCount |-> PyInt(890)]),
    TikTokStats([playCount |-> PyInt(0), diggCount |-> PyInt(0),
                 commentCount |-> PyInt(5), shareCount |-> PyInt(0)]),
    TikTokStats([playCount |-> PyInt(100), diggCount |-> PyInt(0 - 3),
                 commentCount |-> PyNone, shareCount |-> PyFloat(15)]),
    TikTokStats([playCount |-> PyStr(12500), diggCount |-> PyStr(890)]),
    [itemInfo |-> EmptyDict] >>

GraphMedia(lk, cm, vw) ==
    [edge_media_preview_like |-> [count |-> lk],
     edge_media_to_comment |-> [count |-> cm],
     video_view_count |-> vw]
InstagramPayloads == <<
    [data |-> [shortcode_media |-> GraphMedia(PyInt(890), PyInt(45), PyInt(12500))]],
    [items |-> PyList(<< [like_count |-> PyInt(890), comment_count |-> PyInt(45),
                          play_count |-> PyInt(0)] >>)],
    [data |-> [xdt_shortcode_media |-> [like_count |-> PyInt(0), comment_count |-> PyInt(5)]]],
    [items |-> PyList(<< [like_count |-> PyInt(0 - 3), play_count |-> PyInt(100)] >>)],
    [items |-> PyList(<< [like_count |-> PyStr(890), play_count |-> PyInt(0)] >>)],
    [status |-> PyStr(0)] >>

Payloads(platform) == IF platform = "tiktok" THEN TikTokPayloads ELSE InstagramPayloads

(***************************************************************************)
(* TikTokScraper._parse_intercepted_data                                   *)
(***************************************************************************)
\* the item object the three branches resolve; None and {} are both falsy
\* and are both written EmptyDict
TikTok_item_info(data) ==
    IF "itemInfo" \in DOMAIN data
    THEN Get(data["itemInfo"], "itemStruct", EmptyDict)
    ELSE IF "seoProps" \in DOMAIN data
    THEN Get(Get(data, "seoProps", EmptyDict), "webVideoDetail", EmptyDict)
    ELSE IF "itemList" \in DOMAIN data
    THEN LET items == Get(data, "itemList", PyList(<<>>))
         IN IF Truthy(items) THEN items.list[1] ELSE EmptyDict
    ELSE EmptyDict

\* an extractor that reads the comment count for the shares as well
TikTok_parse_intercepted_data_comments(data) ==
    LET stats == Get(TikTok_item_info(data), "stats", EmptyDict)
    IN SomeStats(Quad(Get(stats, "playCount", PyInt(0)),
                      Get(stats, "diggCount", PyInt(0)),
                      Get(stats, "commentCount", PyInt(0)),
                      Get(stats, "commentCount", PyInt(0))))

\* an AttributeError inside the try: .get on a value that is no dict
TikTok_parse_raises(data) ==
    "itemInfo" \in DOMAIN data /\ ~IsDict(data["itemInfo"])

TikTok_parse_intercepted_data(data) ==
    IF ~Truthy(data) THEN NoStats
    ELSE IF TikTok_parse_raises(data) THEN NoStats
    ELSE LET item_info == TikTok_item_info(data)
         IN IF Truthy(item_info)
            THEN LET stats == Get(item_info, "stats", EmptyDict)
                 IN SomeStats(Quad(Get(stats, "playCount", PyInt(0)),
                                   Get(stats, "diggCount", PyInt(0)),
                                   Get(stats, "commentCount", PyInt(0)),
                                   Get(stats, "shareCount", PyInt(0))))
            ELSE NoStats

(***************************************************************************)
(* InstagramScraper._contains_media_data and _parse_intercepted_data       *)
(***************************************************************************)
keys_to_check == {"edge_media_preview_like", "edge_media_to_comment",
                  "like_count", "comment_count", "play_count"}

\* whether str(x) mentions one of the markers: the keys of every nested
\* dict are part of str(x)
RECURSIVE MentionsMarker(_)
MentionsMarker(x) ==
    IF IsScalar(x) THEN FALSE
    ELSE IF IsList(x) THEN \E i \in 1..Len(x.list) : MentionsMarker(x.list[i])
    ELSE \E k \in DOMAIN x : k \in keys_to_check \/ MentionsMarker(x[k])

contains_media_data(data) ==
    IF ~IsDict(data) THEN FALSE ELSE MentionsMarker(data)

\* the media object: every later location that is truthy replaces the
\* earlier one (the three ifs are not chained with elif)
Instagram_media(data) ==
    LET m1 == IF "data" \in DOMAIN data
              THEN LET shortcode_media == Get(Get(data, "data", EmptyDict), "shortcode_media", EmptyDict)
                   IN IF Truthy(shortcode_media) THEN shortcode_media ELSE EmptyDict
              ELSE EmptyDict
        m2 == IF "data" \in DOMAIN data
              THEN LET xdt_shortcode_media == Get(Get(data, "data", EmptyDict), "xdt_shortcode_media", EmptyDict)
                   IN IF Truthy(xdt_shortcode_media) THEN xdt_shortcode_media ELSE m1
              ELSE m1
    IN IF "items" \in DOMAIN data
       THEN LET items == Get(data, "items", PyList(<<>>))
            IN IF Truthy(items) THEN items.list[1] ELSE m2
       ELSE m2

\* a or b
PyOr(a, b) == IF Truthy(a) THEN a ELSE b

Instagram_parse_intercepted_data(data) ==
    IF ~Truthy(data) THEN NoStats
    ELSE LET media == Instagram_media(data)
         IN IF Truthy(media)
            THEN LET likes0 == Get(Get(media, "edge_media_preview_like", EmptyDict), "count", PyInt(0))
                     comments0 == Get(Get(media, "edge_media_to_comment", EmptyDict), "count", PyInt(0))
                     views0 == PyOr(Get(media, "video_view_count", PyInt(0)),
                                    Get(media, "play_count", PyInt(0)))
                     likes == IF ~Truthy(likes0) THEN Get(media, "like_count", PyInt(0)) ELSE likes0
                     comments == IF ~Truthy(comments0) THEN Get(media, "comment_count", PyInt(0)) ELSE comments0
                     views == IF ~Truthy(views0) THEN Get(media, "view_count", PyInt(0)) ELSE views0
                 IN SomeStats(Quad(views, likes, comments, PyInt(0)))
            ELSE NoStats

parse_intercepted_data(platform, data) ==
    IF platform = "tiktok" THEN TikTok_parse_intercepted_data(data)
    ELSE Instagram_parse_intercepted_data(data)

(***************************************************************************)
(* _parse_count (the same code in TikTokScraper and InstagramScraper).     *)
(* A text is a sequence of one-character strings.                          *)
(***************************************************************************)
Whitespace == {" ", "\n"}
DigitChars == {"0", "1", "2", "3", "4", "5", "6", "7", "8", "9"}

RECURSIVE LStrip(_)
LStrip(s) == IF s # <<>> /\ Head(s) \in Whitespace THEN LStrip(Tail(s)) ELSE s
RECURSIVE RStrip(_)
RStrip(s) ==
    IF s # <<>> /\ s[Len(s)] \in Whitespace THEN RStrip(SubSeq(s, 1, Len(s) - 1)) ELSE s
\* str.strip()
Strip(s) == RStrip(LStrip(s))

UpperChar(c) ==
    CASE c = "k" -> "K" [] c = "m" -> "M" [] c = "b" -> "B" [] c = "e" -> "E"
      [] c = "i" -> "I" [] c = "n" -> "N" [] c = "f" -> "F" [] c = "a" -> "A"
      [] c = "c" -> "C" [] OTHER -> c
\* str.upper()
Upper(s) == [i \in 1..Len(s) |-> UpperChar(s[i])]
\* str.replace(c, '')
Remove(s, c) == SelectSeq(s, LAMBDA x : x # c)
\* str.endswith(c)
EndsWith(s, c) == s # <<>> /\ s[Len(s)] = c
\* text[:-1]
DropLast(s) == SubSeq(s, 1, Len(s) - 1)

DigitValue(c) ==
    CASE c = "0" -> 0 [] c = "1" -> 1 [] c = "2" -> 2 [] c = "3" -> 3 [] c = "4" -> 4
      [] c = "5" -> 5 [] c = "6" -> 6 [] c = "7" -> 7 [] c = "8" -> 8 [] OTHER -> 9
AllDigits(s) == \A i \in 1..Len(s) : s[i] \in DigitChars
RECURSIVE DigitsValue(_)
DigitsValue(s) ==
    IF s = <<>> THEN 0 ELSE 10 * DigitsValue(DropLast(s)) + DigitValue(s[Len(s)])
RECURSIVE Pow10(_)
Pow10(n) == IF n <= 0 THEN 1 ELSE 10 * Pow10(n - 1)

\* the largest decimal exponent of a finite double
FloatMaxExp == 308

Positions(s, c) == {i \in 1..Len(s) : s[i] = c}
FloatError == [kind |-> "error", neg |-> FALSE, num |-> 0, den |-> 1]
FloatInf(neg) == [kind |-> "inf", neg |-> neg, num |-> 0, den |-> 1]
FloatNum(neg, num, den) == [kind |-> "num", neg |-> neg, num |-> num, den |-> den]

\* float(text), stage by stage: the sign, INF / INFINITY / NAN, the
\* exponent, the decimal point, the digits.  The value is num / den, den a
\* power of ten.
\* the value of the digits m, with ilen of them before the point, times
\* 10^e; shift is e less the number of digits after the point
FloatValue(neg, m, ilen, e, shift) ==
    IF m = 0 THEN FloatNum(neg, 0, 1)
    ELSE IF ilen + e > FloatMaxExp + 1 THEN FloatInf(neg)
    ELSE IF shift >= 0 THEN FloatNum(neg, m * Pow10(shift), 1)
    ELSE FloatNum(neg, m, Pow10(0 - shift))

FloatDigits(neg, ipart, fpart, e) ==
    IF ipart \o fpart = <<>> \/ ~AllDigits(ipart \o fpart) THEN FloatError
    ELSE FloatValue(neg, DigitsValue(ipart \o fpart), Len(ipart), e, e - Len(fpart))

FloatSplit(neg, mant, dpos, e) ==
    FloatDigits(neg, SubSeq(mant, 1, dpos - 1), SubSeq(mant, dpos + 1, Len(mant)), e)

FloatMantissa(neg, mant, e) ==
    IF Cardinality(Positions(mant, ".")) > 1 THEN FloatError
    ELSE IF Positions(mant, ".") = {} THEN FloatSplit(neg, mant, Len(mant) + 1, e)
    ELSE FloatSplit(neg, mant, CHOOSE i \in Positions(mant, ".") : TRUE, e)

FloatExpDigits(neg, mant, eneg, edigits) ==
    IF edigits = <<>> \/ ~AllDigits(edigits) THEN FloatError
    ELSE FloatMantissa(neg, mant, IF eneg THEN 0 - DigitsValue(edigits) ELSE DigitsValue(edigits))

FloatExponent(neg, mant, expo) ==
    IF expo # <<>> /\ Head(expo) \in {"+", "-"}
    THEN FloatExpDigits(neg, mant, Head(expo) = "-", Tail(expo))
    ELSE FloatExpDigits(neg, mant, FALSE, expo)

FloatAtE(neg, body, epos) ==
    FloatExponent(neg, SubSeq(body, 1, epos - 1), SubSeq(body, epos + 1, Len(body)))

FloatBody(neg, body) ==
    IF body \in {<<"I", "N", "F">>, <<"I", "N", "F", "I", "N", "I", "T", "Y">>}
    THEN FloatInf(neg)
    ELSE IF body = <<"N", "A", "N">>
    THEN [kind |-> "nan", neg |-> neg, num |-> 0, den |-> 1]
    ELSE IF Cardinality(Positions(body, "E")) > 1 THEN FloatError
    ELSE IF Positions(body, "E") = {} THEN FloatMantissa(neg, body, 0)
    ELSE FloatAtE(neg, body, CHOOSE i \in Positions(body, "E") : TRUE)

ParseFloat(text) ==
    IF text # <<>> /\ Head(text) \in {"+", "-"}
    THEN FloatBody(Head(text) = "-", Tail(text))
    ELSE FloatBody(FALSE, text)

\* the result of a call: a value, or an exception that is not caught
Returned(n) == [raises |-> FALSE, v |-> n]
Raised == [raises |-> TRUE, v |-> 0]

(***************************************************************************)
(* Binary floating point.  A float is an IEEE-754 double: 53 significant   *)
(* bits, every result rounded to the nearest double, ties to the even one. *)
(* A long natural is a sequence of limbs of 20 bits, or a sequence of      *)
(* bits, the most significant first; a double is its significant bits m    *)
(* and an exponent, its value m * 2^exp.                                   *)
(***************************************************************************)
LimbBits == 20
Limb == 1048576

RECURSIVE Pow2(_)
Pow2(n) == IF n <= 0 THEN 1 ELSE 2 * Pow2(n - 1)
RECURSIVE NatOf(_)
NatOf(bits) == IF bits = <<>> THEN 0 ELSE 2 * NatOf(DropLast(bits)) + bits[Len(bits)]
Zeros(n) == [i \in 1..n |-> 0]
StripZeros(bits) ==
    IF \A i \in 1..Len(bits) : bits[i] = 0 THEN <<>>
    ELSE SubSeq(bits, CHOOSE k \in 1..Len(bits) :
                          bits[k] = 1 /\ \A i \in 1..(k - 1) : bits[i] = 0,
                Len(bits))

LimbsOf(n) == <<n \div Limb, n % Limb>>
BitsOfLimbs(limbs) ==
    [i \in 1..(LimbBits * Len(limbs)) |->
        (limbs[((i - 1) \div LimbBits) + 1] \div Pow2(LimbBits - 1 - ((i - 1) % LimbBits))) % 2]
Padded(bits) == Zeros((LimbBits - (Len(bits) % LimbBits)) % LimbBits) \o bits
LimbsOfPadded(bits) ==
    [j \in 1..(Len(bits) \div LimbBits) |->
        NatOf(SubSeq(bits, LimbBits * (j - 1) + 1, LimbBits * j))]

\* long division by d <= 1000: the quotient, and whether a remainder is left
RECURSIVE DivSmall(_, _, _, _)
DivSmall(limbs, d, rem, quot) ==
    IF limbs = <<>> THEN [q |-> quot, sticky |-> rem # 0]
    ELSE DivSmall(Tail(limbs), d, (rem * Limb + Head(limbs)) % d,
                  Append(quot, (rem * Limb + Head(limbs)) \div d))

AndSticky(r, sticky) == [q |-> r.q, sticky |-> r.sticky \/ sticky]

\* division by a power of ten, three digits at a time
RECURSIVE DivPow10(_, _)
DivPow10(r, den) ==
    IF den = 1 THEN r
    ELSE IF den <= 1000 THEN AndSticky(DivSmall(r.q, den, 0, <<>>), r.sticky)
    ELSE DivPow10(AndSticky(DivSmall(r.q, 1000, 0, <<>>), r.sticky), den \div 1000)

\* long multiplication by m <= 1000
RECURSIVE MulSmall(_, _, _, _)
MulSmall(limbs, m, carry, low) ==
    IF limbs = <<>> THEN <<carry>> \o low
    ELSE MulSmall(DropLast(limbs), m, (limbs[Len(limbs)] * m + carry) \div Limb,
                  <<(limbs[Len(limbs)] * m + carry) % Limb>> \o low)

\* multiplication by 1, 1000, 1000000 or 1000000000
RECURSIVE MulPow1000(_, _)
MulPow1000(limbs, multiplier) ==
    IF multiplier = 1 THEN limbs
    ELSE MulPow1000(MulSmall(limbs, 1000, 0, <<>>), multiplier \div 1000)

Double(m, exp) == [m |-> m, exp |-> exp]

\* a 53-bit numeral plus one
RoundedUp(m, exp) ==
    IF \A i \in 1..Len(m) : m[i] = 1 THEN Double(<<1>> \o Zeros(Len(m) - 1), exp + 1)
    ELSE LET j == CHOOSE k \in 1..Len(m) :
                      m[k] = 0 /\ \A i \in (k + 1)..Len(m) : m[i] = 1
         IN Double(SubSeq(m, 1, j - 1) \o <<1>> \o Zeros(Len(m) - j), exp)

\* the double nearest to bits * 2^exp (plus a fraction of its last place
\* when sticky), bits without leading zeros
Round53(bits, sticky, exp) ==
    IF Len(bits) <= 53 THEN Double(bits, exp)
    ELSE IF /\ bits[54] = 1
            /\ \/ sticky
               \/ \E i \in 55..Len(bits) : bits[i] = 1
               \/ bits[53] = 1
    THEN RoundedUp(SubSeq(bits, 1, 53), exp + Len(bits) - 53)
    ELSE Double(SubSeq(bits, 1, 53), exp + Len(bits) - 53)

RoundQuotient(r, exp) == Round53(StripZeros(BitsOfLimbs(r.q)), r.sticky, exp)

\* limbs of binary places the quotient num / den is computed to before it
\* is rounded
GuardLimbs == 5

\* float(text) for the decimal num / den
DoubleOf(num, den) ==
    RoundQuotient(DivPow10([q |-> LimbsOf(num) \o Zeros(GuardLimbs), sticky |-> FALSE], den),
                  0 - LimbBits * GuardLimbs)

\* x * multiplier
TimesDouble(x, multiplier) ==
    Round53(StripZeros(BitsOfLimbs(MulPow1000(LimbsOfPadded(Padded(x.m)), multiplier))),
            FALSE, x.exp)

\* int(x): the fraction is dropped
IntOfDouble(x) ==
    IF x.exp >= 0 THEN NatOf(x.m \o Zeros(x.exp))
    ELSE IF 0 - x.exp >= Len(x.m) THEN 0
    ELSE NatOf(SubSeq(x.m, 1, Len(x.m) + x.exp))

\* int(f * multiplier) inside try / except ValueError: float() raises
\* ValueError on a malformed text, int() raises ValueError on nan and
\* OverflowError on infinity
IntOfProduct(f, multiplier) ==
    CASE f.kind = "error" -> Returned(0)
      [] f.kind = "nan" -> Returned(0)
      [] f.kind = "inf" -> Raised
      [] f.neg -> Returned(0 - IntOfDouble(TimesDouble(DoubleOf(f.num, f.den), multiplier)))
      [] OTHER -> Returned(IntOfDouble(TimesDouble(DoubleOf(f.num, f.den), multiplier)))

\* the suffix and its multiplier, on the cleaned text
ParseCleaned(text) ==
    IF EndsWith(text, "K") THEN IntOfProduct(ParseFloat(DropLast(text)), 1000)
    ELSE IF EndsWith(text, "M") THEN IntOfProduct(ParseFloat(DropLast(text)), 1000000)
    ELSE IF EndsWith(text, "B") THEN IntOfProduct(ParseFloat(DropLast(text)), 1000000000)
    ELSE IntOfProduct(ParseFloat(text), 1)

\* TikTokScraper._parse_count
TikTok_parse_count(text) ==
    IF text = <<>> THEN Returned(0)
    ELSE ParseCleaned(Remove(Remove(Upper(Strip(text)), ","), " "))

\* InstagramScraper._parse_count
Instagram_multiplier(text) ==
    CASE EndsWith(text, "K") -> 1000
      [] EndsWith(text, "M") -> 1000000
      [] EndsWith(text, "B") -> 1000000000
      [] OTHER -> 1
Instagram_parse_cleaned(text) ==
    IntOfProduct(ParseFloat(IF Instagram_multiplier(text) > 1 THEN DropLast(text) ELSE text),
                 Instagram_multiplier(text))
Instagram_parse_count(text) ==
    IF Len(text) = 0 THEN Returned(0)
    ELSE Instagram_parse_cleaned(Remove(Remove(Upper(Strip(text)), ","), " "))

parse_count(platform, text) ==
    IF platform = "tiktok" THEN TikTok_parse_count(text) ELSE Instagram_parse_count(text)

(***************************************************************************)
(* The texts _parse_count is called with.                                  *)
(***************************************************************************)
DigitChar(d) ==
    CASE d = 0 -> "0" [] d = 1 -> "1" [] d = 2 -> "2" [] d = 3 -> "3" [] d = 4 -> "4"
      [] d = 5 -> "5" [] d = 6 -> "6" [] d = 7 -> "7" [] d = 8 -> "8" [] OTHER -> "9"
RECURSIVE DigitsOf(_)
DigitsOf(n) == IF n < 10 THEN <<DigitChar(n)>> ELSE Append(DigitsOf(n \div 10), DigitChar(n % 10))

Fractions ==
    { <<>>, <<".">>, <<".", "1">>, <<".", "5">>, <<".", "0", "1">>, <<".", "2", "5">>,
      <<".", "2", "3", "4">>, <<".", "9", "9", "9">> }
Suffixes == { <<>>, <<"K">>, <<"k">>, <<"M">>, <<"m">> }

\* decimal numbers with a suffix; the results stay below 2^31
NumberTexts ==
    {DigitsOf(w) \o f \o x : w \in 0..MaxWhole, f \in Fractions, x \in Suffixes}
    \cup {DigitsOf(w) \o f \o x : w \in 0..1, f \in Fractions, x \in {<<"B">>, <<"b">>}}

\* numbers as pages format them, and texts that are no number
OtherTexts ==
    { <<>>, <<" ">>, <<"2", "B">>, <<"2", "3", "4", "K">>, <<"1", ",", "2", "3", "4">>,
      <<" ", "1", " ", "2", "3", "4", " ">>, <<"1", ",", "2", "3", "4", ".", "5", "K">>,
      <<"\n", "1", ".", "5", " ", "m", "\n">>, <<"1", "2", "5", "0", "0">>,
      <<"a", "b", "c">>, <<"K">>, <<"m">>, <<".">>, <<".", "K">>,
      <<"1", ".", "2", ".", "3">>, <<"1", ".", ".", "5">>, <<"5", "K", "K">>,
      <<"i", "n", "f">>, <<"I", "N", "F">>, <<"-", "i", "n", "f">>, <<"n", "a", "n">>,
      <<"1", "e", "9", "9", "9">>, <<"1", "e", "3">>, <<"1", "E", "-", "2", "K">>,
      <<"-", "5">>, <<"-", "1", ".", "5", "K">>, <<"-", "0">>, <<"+", "7">>,
      <<"-", "-", "1">>, <<"-">>, <<"e">>, <<"1", "e">> }

CountTexts == NumberTexts \cup OtherTexts

(***************************************************************************)
(* The pages the HTML fallback may find.  An element is absent, found      *)
(* with its text, or its query raises.                                     *)
(***************************************************************************)
Absent == [state |-> "absent", text |-> <<>>]
Found(text) == [state |-> "found", text |-> text]
QueryError == [state |-> "error", text |-> <<>>]

TikTokDoms == <<
    [views |-> Absent, likes |-> Absent, comments |-> Absent, shares |-> Absent],
    [views |-> Found(<<"1", ".", "5", "M">>), likes |-> Found(<<"2", "3", "4", "K">>),
     comments |-> Found(<<"1", ",", "2", "3", "4">>), shares |-> Found(<<"1", "2">>)],
    [views |-> Found(<<"-", "5">>), likes |-> Found(<<"i", "n", "f">>),
     comments |-> QueryError, shares |-> Absent] >>

\* a script block of type application/ld+json: text that json.loads
\* rejects, or an object; interactionStatistic is its list, if it has one
Malformed == [malformed |-> TRUE, has |-> FALSE, interactionStatistic |-> <<>>]
LdJson(stats) == [malformed |-> FALSE, has |-> TRUE, interactionStatistic |-> stats]
Counter(type, count) == [interactionType |-> type, userInteractionCount |-> count]

\* the og:description element with the three regular-expression matches
Meta(lk, cm, vw) == [state |-> "found", likes |-> lk, comments |-> cm, views |-> vw]
NoMeta == [state |-> "absent", likes |-> Absent, comments |-> Absent, views |-> Absent]

InstagramDoms == <<
    [meta |-> NoMeta, scripts |-> <<>>],
    [meta |-> Meta(Found(<<"1", ".", "5", "K">>), Found(<<"4", "5">>), Found(<<".">>)),
     scripts |-> << Malformed, LdJson(<< Counter("LikeAction", PyInt(7)) >>) >>],
    [meta |-> NoMeta,
     scripts |-> << LdJson(<< Counter("WatchAction", PyStr(12500)),
                             Counter("CommentAction", PyInt(0 - 1)),
                             Counter("ShareAction", PyInt(4)) >>) >>] >>

Doms(platform) == IF platform = "tiktok" THEN TikTokDoms ELSE InstagramDoms

(***************************************************************************)
(* TikTokScraper._parse_from_html: each stat on its own, an exception      *)
(* leaves the stat 0.                                                      *)
(***************************************************************************)
TikTok_stat(element) ==
    IF element.state = "found"
    THEN LET r == TikTok_parse_count(element.text)
         IN IF r.raises THEN PyInt(0) ELSE PyInt(r.v)
    ELSE PyInt(0)

TikTok_parse_from_html(dom) ==
    Quad(TikTok_stat(dom.views), TikTok_stat(dom.likes),
         TikTok_stat(dom.comments), TikTok_stat(dom.shares))

(***************************************************************************)
(* InstagramScraper._parse_from_html: the meta description, then every     *)
(* ld+json script block.                                                   *)
(***************************************************************************)
MetaCount(match) ==
    IF match.state = "found" THEN Instagram_parse_count(match.text) ELSE Returned(0)

\* stats after the meta-description strategy, and whether it raised out to
\* the outer except (which returns the stats as they are); likes, then
\* comments, then views
MetaViews(lv, cv, v) ==
    IF v.raises
    THEN [q |-> Quad(PyInt(0), PyInt(lv), PyInt(cv), PyInt(0)), failed |-> TRUE]
    ELSE [q |-> Quad(PyInt(v.v), PyInt(lv), PyInt(cv), PyInt(0)), failed |-> FALSE]

MetaComments(meta, lv, c) ==
    IF c.raises
    THEN [q |-> Quad(PyInt(0), PyInt(lv), PyInt(0), PyInt(0)), failed |-> TRUE]
    ELSE MetaViews(lv, c.v, MetaCount(meta.views))

MetaLikes(meta, l) ==
    IF l.raises THEN [q |-> ZeroQuad, failed |-> TRUE]
    ELSE MetaComments(meta, l.v, MetaCount(meta.comments))

Instagram_meta(meta) ==
    IF meta.state = "error" THEN [q |-> ZeroQuad, failed |-> TRUE]
    ELSE IF meta.state = "absent" THEN [q |-> ZeroQuad, failed |-> FALSE]
    ELSE MetaLikes(meta, MetaCount(meta.likes))

\* 'Like' in stat_type, 'Comment' in stat_type, 'Watch' in stat_type
LikeTypes == {"LikeAction", "http://schema.org/LikeAction"}
CommentTypes == {"CommentAction", "http://schema.org/CommentAction"}
WatchTypes == {"WatchAction", "http://schema.org/WatchAction"}

Instagram_apply_stat(q, stat) ==
    LET stat_type == stat.interactionType
        count == stat.userInteractionCount
    IN IF stat_type \in LikeTypes THEN [q EXCEPT !.likes = count]
       ELSE IF stat_type \in CommentTypes THEN [q EXCEPT !.comments = count]
       ELSE IF stat_type \in WatchTypes THEN [q EXCEPT !.views = count]
       ELSE q

RECURSIVE Instagram_apply_stats(_, _)
Instagram_apply_stats(q, stats) ==
    IF stats = <<>> THEN q
    ELSE Instagram_apply_stats(Instagram_apply_stat(q, Head(stats)), Tail(stats))

RECURSIVE Instagram_scripts(_, _)
Instagram_scripts(q, scripts) ==
    IF scripts = <<>> THEN q
    ELSE LET script == Head(scripts)
             q1 == IF ~script.malformed /\ script.has
                   THEN Instagram_apply_stats(q, script.interactionStatistic)
                   ELSE q
         IN Instagram_scripts(q1, Tail(scripts))

Instagram_parse_from_html(dom) ==
    LET m == Instagram_meta(dom.meta)
    IN IF m.failed THEN m.q ELSE Instagram_scripts(m.q, dom.scripts)

parse_from_html(platform, dom) ==
    IF platform = "tiktok" THEN TikTok_parse_from_html(dom)
    ELSE Instagram_parse_from_html(dom)

\* what _parse_from_html finds on each of the pages
TikTokHtml == [i \in 1..Len(TikTokDoms) |-> parse_from_html("tiktok", TikTokDoms[i])]
InstagramHtml == [i \in 1..Len(InstagramDoms) |-> parse_from_html("instagram", InstagramDoms[i])]
Html(platform) == IF platform = "tiktok" THEN TikTokHtml ELSE InstagramHtml

(***************************************************************************)
(* The acceptance test of scrape() on the structured-data extractor's      *)
(* result: "accept" returns it, "fallback" goes on to the HTML parser,     *)
(* "raise" is the TypeError of comparing a non-number with 0.              *)
(***************************************************************************)
TikTok_accept(st) ==
    IF st.isNone THEN "fallback"
    ELSE IF GtRaises(st.q.views) THEN "raise"
    ELSE IF Gt0(st.q.views) THEN "accept"
    ELSE "fallback"

Instagram_accept(st) ==
    IF st.isNone THEN "fallback"
    ELSE IF GtRaises(st.q.views) THEN "raise"
    ELSE IF Gt0(st.q.views) THEN "accept"
    ELSE IF GtRaises(st.q.likes) THEN "raise"
    ELSE IF Gt0(st.q.likes) THEN "accept"
    ELSE "fallback"

accept(platform, st) ==
    IF platform = "tiktok" THEN TikTok_accept(st) ELSE Instagram_accept(st)

(***************************************************************************)
(* Records.                                                                *)
(***************************************************************************)
NoError == "<no error key>"
UnsupportedApi == "Unsupported platform. Only TikTok and Instagram are supported."
UnsupportedCli == "Unsupported platform"
LaunchMsg == "BrowserType.launch: Executable doesn't exist"
NewPageMsg == "BrowserContext.new_page: Target closed"
TimeoutMsg == "Page.goto: Timeout 30000ms exceeded."
NavigationMsg == "Page.goto: net::ERR_NAME_NOT_RESOLVED"
EvaluateMsg == "Page.evaluate: Execution context was destroyed"
TypeErrorMsg == "'>' not supported between instances of 'str' and 'int'"

\* the dict scrape() returns: the quadruple, with an error key on failure
Stats(q, error) ==
    [views |-> q.views, likes |-> q.likes, comments |-> q.comments,
     shares |-> q.shares, error |-> error]
NoResult == Stats(ZeroQuad, NoError)

\* {'url': url, 'platform': platform, ['scraped_at': ...,] **stats}
Record(url, platform, stats, stamped) ==
    [url |-> url.name, platform |-> platform, views |-> stats.views,
     likes |-> stats.likes, comments |-> stats.comments, shares |-> stats.shares,
     error |-> stats.error, scraped_at |-> stamped]
NoRecord == [url |-> "", platform |-> "", views |-> PyInt(0), likes |-> PyInt(0),
             comments |-> PyInt(0), shares |-> PyInt(0), error |-> NoError,
             scraped_at |-> FALSE]

NoExc == [msg |-> NoError, at |-> "none"]
Exc(msg, at) == [msg |-> msg, at |-> at]

(***************************************************************************)
(* State.                                                                  *)
(***************************************************************************)
\* flows of control: HTTP requests are served by threads that may overlap;
\* the command-line tool is one flow
Procs == {1, 2}

VARIABLES
    mode,              \* the running program: "api", "cli", "threads" (the API
                       \* serving overlapping /scrape requests), or "limiter"
                       \* (a client calling the RateLimiter's methods)
    pc,                \* each flow's position in the code
    loc,               \* each flow's arguments and local variables
    session,           \* each flow's latest browser session
    listeners,         \* response listeners attached to each flow's page
    intercepted_data,  \* the scrapers' intercepted_data, per platform
    limiter,           \* the process-wide RateLimiter
    now,               \* time.time(), in seconds
    out,               \* what each flow's finished call gave its caller
    history            \* the calls a client of the RateLimiter has completed

vars == <<mode, pc, loc, session, listeners, intercepted_data, limiter, now, out, history>>

NoData == [body |-> 0, owner |-> 0, url |-> 0]

NoResponse ==
    [pending |-> FALSE, platform |-> "", api |-> FALSE, ctype |-> "", body |-> 0, url |-> 0]

NoLoc == [entry |-> "none", args |-> <<>>, urls |-> <<>>, idx |-> 1, platform |-> "unknown",
          structured |-> NoStats, html |-> [ran |-> FALSE, dom |-> 0, q |-> ZeroQuad],
          stats |-> NoResult, timeout |-> FALSE, extracted |-> FALSE, read |-> 0, read_url |-> 0,
          record |-> NoRecord, results |-> <<>>, exc |-> NoExc, limited |-> FALSE,
          delay |-> 0, slept |-> 0, text |-> <<>>, count |-> Returned(0),
          response |-> NoResponse, payload |-> <<>>, before |-> 0, earlier |-> 0]
NoSession ==
    [opened |-> FALSE, live |-> FALSE, closes |-> 0, stops |-> 0, served |-> 0,
     launches |-> 0]
NoOut == [kind |-> "none", status |-> 0, error |-> NoError, data |-> <<>>, at |-> "none"]

\* RateLimiter.__init__ defaults
MinDelay == 3
MaxDelay == 5

\* RateLimiter(max_requests=n)
RateLimiter(n) == [max_requests |-> n, request_count |-> 0, last_request_time |-> 0]

\* the ceilings the limiter may have been built with; the API never
\* consults its limiter
Ceilings(m) == IF m \in {"cli", "limiter"} THEN 1..MaxRequests ELSE {MaxRequests}

InitCommon ==
    /\ pc = [p \in Procs |-> "idle"]
    /\ loc = [p \in Procs |-> NoLoc]
    /\ session = [p \in Procs |-> NoSession]
    /\ listeners = [p \in Procs |-> [tiktok |-> 0, instagram |-> 0]]
    /\ intercepted_data = [pl \in Platforms |-> NoData]
    /\ limiter \in {RateLimiter(n) : n \in Ceilings(mode)}
    /\ history = <<>>
    /\ now = 1
    /\ out = [p \in Procs |-> NoOut]

Init == mode \in {"api", "cli"} /\ InitCommon
InitThreads == mode = "threads" /\ InitCommon

\* the URL the flow is handling; /scrape/batch hands url.strip() to
\* scrape_single_url
Url(p) ==
    IF loc[p].entry = "scrape_batch" THEN strip(loc[p].urls[loc[p].idx])
    ELSE loc[p].urls[loc[p].idx]

RECURSIVE SeqsUpTo(_, _)
SeqsUpTo(S, n) ==
    IF n = 0 THEN {<<>>}
    ELSE LET shorter == SeqsUpTo(S, n - 1)
         IN shorter \cup {Append(s, x) : s \in {t \in shorter : Len(t) = n - 1}, x \in S}

(***************************************************************************)
(* Entry points.  "scrape" is POST /scrape (scrape_single_url),            *)
(* "scrape_batch" is POST /scrape/batch, "scrape_url" and "scrape_urls"    *)
(* are the methods of SocialMediaScraper.                                  *)
(***************************************************************************)
Entries(m) ==
    CASE m = "api" -> {"scrape", "scrape_batch"}
      [] m = "cli" -> {"scrape_url", "scrape_urls"}
      [] m = "batch" -> {"scrape_batch"}
      [] m = "classify" -> {"scrape", "scrape_batch", "scrape_url", "scrape_urls"}
      [] m = "late" -> {"scrape_urls"}
      [] OTHER -> {"scrape"}

\* the texts a long list posted to /scrape/batch is made of: entry i is
\* either blank ('' at even positions, whitespace at odd ones) or an address
\* of its own on a site that is neither platform, padded at odd positions
BatchNames ==
    << "example.com/1", "example.com/2", "example.com/3", "example.com/4",
       "example.com/5", "example.com/6", "example.com/7", "example.com/8",
       "example.com/9", "example.com/10", "example.com/11", "example.com/12",
       "example.com/13" >>
UrlAt(i) == [name |-> BatchNames[i], tt |-> {}, ig |-> {}, spaces |-> i % 2]
BlankAt(i) == [name |-> "", tt |-> {}, ig |-> {}, spaces |-> 3 * (i % 2)]

RECURSIVE BatchLists(_)
BatchLists(n) ==
    IF n = 0 THEN {<<>>}
    ELSE LET shorter == BatchLists(n - 1)
         IN shorter \cup {Append(s, x) : s \in {t \in shorter : Len(t) = n - 1},
                                         x \in {UrlAt(n), BlankAt(n)}}

\* the URL lists a caller hands over
Arguments(m) ==
    CASE m = "batch" -> BatchLists(MaxBatch)
      [] m = "classify" -> {<<url>> : url \in Urls \cup {UrlBoth}}
      [] m = "process" -> SeqsUpTo({UrlTikTok, UrlOther}, MaxUrls)
      [] m = "late" -> SeqsUpTo({UrlTikTok}, MaxUrls)
      [] OTHER -> SeqsUpTo(Urls, MaxUrls)

\* "if len(urls) > 10: urls = urls[:10]"
BatchLimit == 10
Truncated_none(urls) == urls
Truncated(urls) ==
    IF Len(urls) > BatchLimit THEN SubSeq(urls, 1, BatchLimit) ELSE urls

Http(status, error, data) ==
    [kind |-> "http", status |-> status, error |-> error, data |-> data, at |-> "none"]
Returns(data) ==
    [kind |-> "return", status |-> 0, error |-> NoError, data |-> data, at |-> "none"]
Raises(exc) ==
    [kind |-> "raise", status |-> 0, error |-> exc.msg, data |-> <<>>, at |-> exc.at]

\* a caller starts an entry point with its arguments
Call(p) ==
    /\ pc[p] = "idle"
    /\ (p = 1 \/ mode = "threads")
    /\ \E e \in Entries(mode), us \in Arguments(mode) :
        /\ e \in {"scrape", "scrape_url"} => Len(us) = 1
        /\ loc' = [loc EXCEPT ![p] = [NoLoc EXCEPT !.entry = e, !.args = us,
                        !.urls = IF e = "scrape_batch" THEN Truncated(us) ELSE us]]
        /\ IF e = "scrape_batch" /\ us = <<>>
           THEN /\ pc' = [pc EXCEPT ![p] = "done"]
                /\ out' = [out EXCEPT ![p] = Http(400, "Empty URL list", <<>>)]
           ELSE /\ pc' = [pc EXCEPT ![p] =
                        CASE e = "scrape_batch" -> "batch_loop"
                          [] e = "scrape_urls" -> "launch"
                          [] OTHER -> "classify"]
                /\ out' = [out EXCEPT ![p] = NoOut]
    /\ UNCHANGED <<mode, history, session, listeners, intercepted_data, limiter, now>>

\* scrape_batch: the head of "for url in urls" with its test
\* "if url and url.strip()", and the response after the loop.
\* The summary sums the four fields and raises on a value that is no number.
SummaryRaises(results) ==
    \E i \in 1..Len(results) :
        \E x \in {results[i].views, results[i].likes, results[i].comments, results[i].shares} :
            GtRaises(x)

BatchLoop(p) ==
    /\ pc[p] = "batch_loop"
    /\ IF loc[p].idx > Len(loc[p].urls)
       THEN /\ pc' = [pc EXCEPT ![p] = "done"]
            /\ out' = [out EXCEPT ![p] =
                          IF SummaryRaises(loc[p].results)
                          THEN Http(500, "unsupported operand type(s) for +", <<>>)
                          ELSE Http(200, NoError, loc[p].results)]
            /\ loc' = loc
       ELSE IF NonEmpty(loc[p].urls[loc[p].idx]) /\ NonEmpty(Url(p))
       THEN /\ pc' = [pc EXCEPT ![p] = "classify"]
            /\ out' = out
            /\ loc' = loc
       ELSE /\ pc' = pc
            /\ out' = out
            /\ loc' = [loc EXCEPT ![p].idx = @ + 1]
    /\ UNCHANGED <<mode, history, session, listeners, intercepted_data, limiter, now>>

\* scrape_single_url and scrape_url up to the unknown-platform return
Classify(p) ==
    /\ pc[p] = "classify"
    /\ LET cli == loc[p].entry = "scrape_url"
           platform == IF cli THEN cli_detect_platform(Url(p)) ELSE detect_platform(Url(p))
       IN IF platform = "unknown"
          THEN /\ loc' = [loc EXCEPT ![p].platform = platform,
                              ![p].record = Record(Url(p), "unknown",
                                  Stats(ZeroQuad, IF cli THEN UnsupportedCli ELSE UnsupportedApi),
                                  FALSE)]
               /\ pc' = [pc EXCEPT ![p] = "single_return"]
          ELSE /\ loc' = [loc EXCEPT ![p].platform = platform]
               /\ pc' = [pc EXCEPT ![p] = "launch"]
    /\ UNCHANGED <<mode, history, session, listeners, intercepted_data, limiter, now, out>>

\* create_stealth_browser, called before the try block of every entry point
Launch(p) ==
    /\ pc[p] = "launch"
    /\ \E ok \in BOOLEAN :
        IF ok
        THEN /\ session' = [session EXCEPT ![p] =
                    [opened |-> TRUE, live |-> TRUE, closes |-> 0, stops |-> 0, served |-> 0,
                     launches |-> @.launches + 1]]
             /\ pc' = [pc EXCEPT ![p] = "new_page"]
             /\ loc' = loc
        ELSE /\ session' = [session EXCEPT ![p] =
                    [opened |-> FALSE, live |-> FALSE, closes |-> 0, stops |-> 0, served |-> 0,
                     launches |-> @.launches + 1]]
             /\ pc' = [pc EXCEPT ![p] =
                    IF loc[p].entry = "scrape_urls" THEN "urls_return" ELSE "single_return"]
             /\ loc' = [loc EXCEPT ![p].exc = Exc(LaunchMsg, "launch")]
    /\ UNCHANGED <<mode, history, listeners, intercepted_data, limiter, now, out>>

\* a scrape_url whose try block had no finally clause: the exception would
\* leave the method at once
OnRaise_without_finally(e) == IF e = "scrape_url" THEN "single_return" ELSE "close"

\* where control goes when the try body of an entry point raises: each try
\* has a finally clause that closes the session
OnRaise(e) == "close"

\* the flow's locals after an exception in the try body: scrape_single_url
\* has an except clause that builds the error record, the methods of
\* SocialMediaScraper have none and the exception stays pending
Caught(p, msg, at) ==
    IF loc[p].entry \in {"scrape", "scrape_batch"}
    THEN [loc[p] EXCEPT !.record = Record(Url(p), loc[p].platform, Stats(ZeroQuad, msg), FALSE)]
    ELSE [loc[p] EXCEPT !.exc = Exc(msg, at)]

\* page = await context.new_page()
NewPage(p) ==
    /\ pc[p] = "new_page"
    /\ \E ok \in BOOLEAN :
        IF ok
        THEN /\ listeners' = [listeners EXCEPT ![p] = [tiktok |-> 0, instagram |-> 0]]
             /\ pc' = [pc EXCEPT ![p] =
                    IF loc[p].entry = "scrape_urls" THEN "urls_loop" ELSE "attach"]
             /\ loc' = loc
        ELSE /\ listeners' = listeners
             /\ pc' = [pc EXCEPT ![p] = OnRaise(loc[p].entry)]
             /\ loc' = [loc EXCEPT ![p] = Caught(p, NewPageMsg, "new_page")]
    /\ UNCHANGED <<mode, history, session, intercepted_data, limiter, now, out>>

(***************************************************************************)
(* RateLimiter                                                             *)
(***************************************************************************)
\* a check that would let one request too many through
can_make_request_inclusive == limiter.request_count <= limiter.max_requests

can_make_request == limiter.request_count < limiter.max_requests

\* seconds that may have passed since the last stamp: less than any delay
\* wait() can draw, or as much as the longest one
Elapsed == {1, MaxDelay}

\* the times wait() may be called at; time is counted from the first call
Clock == IF limiter.last_request_time > 0 THEN {now + d : d \in Elapsed} ELSE {now}

\* a wait() that would never sleep
WaitUntil_without_sleep(t, delay) == t

\* the time wait() returns at, called at time t with the delay it drew
WaitUntil(t, delay) ==
    LET elapsed == t - limiter.last_request_time
    IN IF limiter.last_request_time > 0 /\ elapsed < delay
       THEN t + (delay - elapsed)
       ELSE t

(***************************************************************************)
(* scrape_urls: the loop                                                   *)
(***************************************************************************)
\* "for i, url in enumerate(urls)" with the rate-limit check
UrlsLoop(p) ==
    /\ pc[p] = "urls_loop"
    /\ IF loc[p].idx > Len(loc[p].urls)
       THEN /\ pc' = [pc EXCEPT ![p] = "close"]
            /\ loc' = loc
       ELSE IF ~can_make_request
       THEN /\ pc' = [pc EXCEPT ![p] = "close"]
            /\ loc' = [loc EXCEPT ![p].limited = TRUE]
       ELSE /\ pc' = [pc EXCEPT ![p] = "wait"]
            /\ loc' = loc
    /\ UNCHANGED <<mode, history, session, listeners, intercepted_data, limiter, now, out>>

\* RateLimiter.wait() up to the end of its sleep: the clock is read, the
\* delay is drawn when there is an earlier stamp, the flow sleeps for what
\* is left of it
Wait(p) ==
    /\ pc[p] = "wait"
    /\ \E t \in Clock, delay \in {MinDelay, MaxDelay} :
        /\ now' = WaitUntil(t, delay)
        /\ loc' = [loc EXCEPT ![p].delay = IF limiter.last_request_time > 0 THEN delay ELSE 0,
                              ![p].slept = WaitUntil(t, delay) - t]
    /\ pc' = [pc EXCEPT ![p] = IF loc[p].entry = "wait" THEN "stamp" ELSE "urls_wait"]
    /\ UNCHANGED <<mode, history, session, listeners, intercepted_data, limiter, out>>

\* the end of wait(): self.last_request_time = time.time(); self.request_count += 1
Stamped ==
    [limiter EXCEPT !.last_request_time = now, !.request_count = @ + 1]

\* a loop that would classify the URL first and skip the limiter for an
\* unsupported one
UrlsWait_unknown_uncounted(p) ==
    /\ pc[p] = "urls_wait"
    /\ LET platform == cli_detect_platform(Url(p))
       IN IF platform = "unknown"
          THEN /\ limiter' = limiter
               /\ loc' = [loc EXCEPT ![p].platform = platform,
                              ![p].results = Append(@,
                                  Record(Url(p), "unknown", Stats(ZeroQuad, UnsupportedCli), TRUE)),
                              ![p].idx = @ + 1,
                              ![p].delay = 0, ![p].slept = 0]
               /\ pc' = [pc EXCEPT ![p] = "urls_loop"]
          ELSE /\ limiter' = Stamped
               /\ loc' = [loc EXCEPT ![p].platform = platform,
                              ![p].delay = 0, ![p].slept = 0]
               /\ pc' = [pc EXCEPT ![p] = "attach"]
    /\ UNCHANGED <<mode, history, session, listeners, intercepted_data, now, out>>

\* wait() returns in scrape_urls, then detect_platform and the record of
\* an unsupported URL
UrlsWait(p) ==
    /\ pc[p] = "urls_wait"
    /\ limiter' = Stamped
    /\ LET platform == cli_detect_platform(Url(p))
       IN IF platform = "unknown"
          THEN /\ loc' = [loc EXCEPT ![p].platform = platform,
                              ![p].results = Append(@,
                                  Record(Url(p), "unknown", Stats(ZeroQuad, UnsupportedCli), TRUE)),
                              ![p].idx = @ + 1,
                              ![p].delay = 0, ![p].slept = 0]
               /\ pc' = [pc EXCEPT ![p] = "urls_loop"]
          ELSE /\ loc' = [loc EXCEPT ![p].platform = platform,
                              ![p].delay = 0, ![p].slept = 0]
               /\ pc' = [pc EXCEPT ![p] = "attach"]
    /\ UNCHANGED <<mode, history, session, listeners, intercepted_data, now, out>>

(***************************************************************************)
(* A client of the RateLimiter calling wait() and reset() one after        *)
(* another.                                                                *)
(***************************************************************************)
LimiterCall(p) ==
    /\ pc[p] \in {"idle", "done"}
    /\ p = 1
    /\ Len(history) < MaxOps
    /\ \E e \in {"wait", "reset"} :
        /\ loc' = [loc EXCEPT ![p] = [NoLoc EXCEPT !.entry = e]]
        /\ pc' = [pc EXCEPT ![p] = e]
    /\ out' = [out EXCEPT ![p] = NoOut]
    /\ UNCHANGED <<mode, history, session, listeners, intercepted_data, limiter, now>>

\* wait() returns to the client
WaitReturn(p) ==
    /\ pc[p] = "stamp"
    /\ limiter' = Stamped
    /\ history' = Append(history, "wait")
    /\ loc' = [loc EXCEPT ![p].delay = 0, ![p].slept = 0]
    /\ pc' = [pc EXCEPT ![p] = "done"]
    /\ out' = [out EXCEPT ![p] = Returns(<<>>)]
    /\ UNCHANGED <<mode, session, listeners, intercepted_data, now>>

\* a reset() that would forget the stamp and keep the count
Reset_stamp_only(p) ==
    /\ pc[p] = "reset"
    /\ limiter' = [limiter EXCEPT !.last_request_time = 0]
    /\ history' = Append(history, "reset")
    /\ pc' = [pc EXCEPT ![p] = "done"]
    /\ out' = [out EXCEPT ![p] = Returns(<<>>)]
    /\ UNCHANGED <<mode, loc, session, listeners, intercepted_data, now>>

\* RateLimiter.reset()
Reset(p) ==
    /\ pc[p] = "reset"
    /\ limiter' = [limiter EXCEPT !.request_count = 0, !.last_request_time = 0]
    /\ history' = Append(history, "reset")
    /\ pc' = [pc EXCEPT ![p] = "done"]
    /\ out' = [out EXCEPT ![p] = Returns(<<>>)]
    /\ UNCHANGED <<mode, loc, session, listeners, intercepted_data, now>>

(***************************************************************************)
(* TikTokScraper.scrape and InstagramScraper.scrape                        *)
(***************************************************************************)
\* self.intercepted_data = None; page.on('response', ...)
Attach(p) ==
    /\ pc[p] = "attach"
    /\ LET pl == loc[p].platform
       IN /\ intercepted_data' = [intercepted_data EXCEPT ![pl] = NoData]
          /\ listeners' = [listeners EXCEPT ![p][pl] = @ + 1]
    /\ session' = [session EXCEPT ![p].served = @ + 1]
    /\ loc' = [loc EXCEPT ![p].structured = NoStats,
                          ![p].html = [ran |-> FALSE, dom |-> 0, q |-> ZeroQuad],
                          ![p].stats = NoResult,
                          ![p].timeout = FALSE,
                          ![p].extracted = FALSE]
    /\ pc' = [pc EXCEPT ![p] = "goto"]
    /\ UNCHANGED <<mode, history, limiter, now, out>>

\* A network response on the flow's page: its URL matches an API pattern or
\* not, its content type, and its body (0: json() raises).
ContentTypes == {"application/json; charset=utf-8", "text/javascript", "text/html"}
IsJson(ctype) == ctype = "application/json; charset=utf-8"
IsJavascript(ctype) == ctype = "text/javascript"

TikTok_retains(api, ctype, body) ==
    api /\ IsJson(ctype) /\ body # 0

Instagram_retains(api, ctype, body) ==
    /\ api
    /\ IsJson(ctype) \/ IsJavascript(ctype)
    /\ body # 0
    /\ contains_media_data(InstagramPayloads[body])

\* a qualifying test that takes a script payload from TikTok as well
retains_any_script(pl, api, ctype, body) ==
    Instagram_retains(api, ctype, body) \/ (pl = "tiktok" /\ api /\ IsJavascript(ctype) /\ body # 0)

retains(pl, api, ctype, body) ==
    IF pl = "tiktok" THEN TikTok_retains(api, ctype, body)
    ELSE Instagram_retains(api, ctype, body)

\* the responses a page load produces: every body from an API endpoint as
\* JSON, a body that does not parse, and the first body from an address
\* that is no API endpoint, as a script and as HTML
Responses(pl) ==
    {[api |-> TRUE, ctype |-> "application/json; charset=utf-8", body |-> b] :
        b \in 0..Len(Payloads(pl))}
    \cup {[api |-> FALSE, ctype |-> "application/json; charset=utf-8", body |-> 1]}
    \cup {[api |-> TRUE, ctype |-> c, body |-> 1] : c \in {"text/javascript", "text/html"}}

\* A response arrives on the flow's page while the flow awaits (navigation,
\* the pauses): the 'response' event of a listener that is attached
Response(p) ==
    /\ pc[p] \in {"goto", "settle"}
    /\ ~loc[p].response.pending
    /\ \E pl \in Platforms :
        /\ listeners[p][pl] > 0
        /\ \E r \in Responses(pl) :
            loc' = [loc EXCEPT ![p].response =
                        [pending |-> TRUE, platform |-> pl, api |-> r.api,
                         ctype |-> r.ctype, body |-> r.body, url |-> loc[p].idx]]
    /\ UNCHANGED <<mode, history, pc, session, listeners, intercepted_data, limiter, now, out>>

\* _intercept_response on the response that arrived: the callback is a
\* task of its own, "await response.json()" suspends it, and it writes the
\* slot when the body is there, wherever the flow is by then
Intercept(p) ==
    /\ loc[p].response.pending
    /\ LET r == loc[p].response
       IN intercepted_data' =
            IF retains(r.platform, r.api, r.ctype, r.body)
            THEN [intercepted_data EXCEPT ![r.platform] =
                    [body |-> r.body, owner |-> p, url |-> r.url]]
            ELSE intercepted_data
    /\ loc' = [loc EXCEPT ![p].response = NoResponse]
    /\ UNCHANGED <<mode, history, pc, session, listeners, limiter, now, out>>

\* whether the flow may go on: in mode "late" the awaits of scrape() may
\* end while a callback is still awaiting its response body, in the other
\* modes every callback has finished by then
Settled(p) == mode = "late" \/ ~loc[p].response.pending

\* await page.goto(url, wait_until='networkidle', timeout=30000)
Goto(p) ==
    /\ pc[p] = "goto"
    /\ Settled(p)
    /\ \E outcome \in {"ok", "timeout", "error"} :
        CASE outcome = "ok" ->
                /\ pc' = [pc EXCEPT ![p] = "settle"]
                /\ loc' = loc
          [] outcome = "timeout" ->
                /\ pc' = [pc EXCEPT ![p] = "detach"]
                /\ loc' = [loc EXCEPT ![p].stats = Stats(ZeroQuad, TimeoutMsg),
                                      ![p].timeout = TRUE]
          [] OTHER ->
                /\ pc' = [pc EXCEPT ![p] = "detach"]
                /\ loc' = [loc EXCEPT ![p].stats = Stats(ZeroQuad, NavigationMsg)]
    /\ UNCHANGED <<mode, history, session, listeners, intercepted_data, limiter, now, out>>

\* human_delay, scroll_page, human_delay
Settle(p) ==
    /\ pc[p] = "settle"
    /\ Settled(p)
    /\ \E ok \in BOOLEAN :
        IF ok
        THEN /\ pc' = [pc EXCEPT ![p] = "extract"]
             /\ loc' = loc
        ELSE /\ pc' = [pc EXCEPT ![p] = "detach"]
             /\ loc' = [loc EXCEPT ![p].stats = Stats(ZeroQuad, EvaluateMsg)]
    /\ UNCHANGED <<mode, history, session, listeners, intercepted_data, limiter, now, out>>

\* stats = self._parse_intercepted_data() and the acceptance test
Extract(p) ==
    /\ pc[p] = "extract"
    /\ LET pl == loc[p].platform
           slot == intercepted_data[pl]
           st == IF slot.body = 0 THEN NoStats
                 ELSE parse_intercepted_data(pl, Payloads(pl)[slot.body])
           verdict == accept(pl, st)
       IN /\ loc' = [loc EXCEPT ![p].structured = st,
                                ![p].extracted = TRUE,
                                ![p].read = slot.owner,
                                ![p].read_url = slot.url,
                                ![p].stats =
                                    CASE verdict = "accept" -> Stats(st.q, NoError)
                                      [] verdict = "raise" -> Stats(ZeroQuad, TypeErrorMsg)
                                      [] OTHER -> @]
          /\ pc' = [pc EXCEPT ![p] = IF verdict = "fallback" THEN "fallback" ELSE "detach"]
    /\ UNCHANGED <<mode, history, session, listeners, intercepted_data, limiter, now, out>>

\* the test "stats.get('views', 0) > 0 or stats.get('likes', 0) > 0" on the
\* fallback's stats raises TypeError on a value that is no number
html_check_raises(q) ==
    GtRaises(q.views) \/ (~Gt0(q.views) /\ GtRaises(q.likes))

\* stats = await self._parse_from_html(page); the test that chooses the
\* message printed; return stats
Fallback(p) ==
    /\ pc[p] = "fallback"
    /\ LET pl == loc[p].platform
       IN \E i \in 1..Len(Doms(pl)) :
            LET q == Html(pl)[i]
            IN loc' = [loc EXCEPT ![p].html = [ran |-> TRUE, dom |-> i, q |-> q],
                                  ![p].stats = IF html_check_raises(q)
                                               THEN Stats(ZeroQuad, TypeErrorMsg)
                                               ELSE Stats(q, NoError)]
    /\ pc' = [pc EXCEPT ![p] = "detach"]
    /\ UNCHANGED <<mode, history, session, listeners, intercepted_data, limiter, now, out>>

\* a scrape() that removed its listener at the end of the try body only:
\* a scrape that raised would leave it attached
Detach_on_success(p) ==
    /\ pc[p] = "detach"
    /\ listeners' = [listeners EXCEPT ![p][loc[p].platform] =
                        IF loc[p].stats.error = NoError /\ @ > 0 THEN @ - 1 ELSE @]
    /\ pc' = [pc EXCEPT ![p] = "after_scrape"]
    /\ UNCHANGED <<mode, history, loc, session, intercepted_data, limiter, now, out>>

\* finally: page.remove_listener('response', ...)
Detach(p) ==
    /\ pc[p] = "detach"
    /\ listeners' = [listeners EXCEPT ![p][loc[p].platform] = IF @ > 0 THEN @ - 1 ELSE 0]
    /\ pc' = [pc EXCEPT ![p] = "after_scrape"]
    /\ UNCHANGED <<mode, history, loc, session, intercepted_data, limiter, now, out>>

\* scrape() has returned: its local variables are gone
Returned_from_scrape(p) ==
    [loc[p] EXCEPT !.structured = NoStats, !.html = [ran |-> FALSE, dom |-> 0, q |-> ZeroQuad],
                   !.stats = NoResult, !.timeout = FALSE, !.extracted = FALSE, !.read = 0,
                   !.read_url = 0]

\* the caller of scrape() builds the record from the stats
AfterScrape(p) ==
    /\ pc[p] = "after_scrape"
    /\ LET record == Record(Url(p), loc[p].platform, loc[p].stats, TRUE)
       IN IF loc[p].entry = "scrape_urls"
          THEN /\ loc' = [loc EXCEPT ![p] = [Returned_from_scrape(p) EXCEPT
                                    !.results = Append(@, record), !.idx = @ + 1]]
               /\ pc' = [pc EXCEPT ![p] = "urls_loop"]
          ELSE /\ loc' = [loc EXCEPT ![p] = [Returned_from_scrape(p) EXCEPT !.record = record]]
               /\ pc' = [pc EXCEPT ![p] = "close"]
    /\ UNCHANGED <<mode, history, session, listeners, intercepted_data, limiter, now, out>>

\* finally: await safe_close(playwright, browser). Both calls stand in one
\* try block whose except clause swallows the exception: when browser.close()
\* raises, playwright.stop() is not reached; what playwright.stop() raises
\* is swallowed as well, so safe_close returns normally in every case
Close(p) ==
    /\ pc[p] = "close"
    /\ \E closed \in BOOLEAN :
        session' = [session EXCEPT ![p].closes = @ + 1,
                                   ![p].live = ~closed,
                                   ![p].stops = IF closed THEN @ + 1 ELSE @]
    /\ pc' = [pc EXCEPT ![p] =
            IF loc[p].entry = "scrape_urls" THEN "urls_return" ELSE "single_return"]
    /\ UNCHANGED <<mode, history, loc, listeners, intercepted_data, limiter, now, out>>

\* scrape_single_url or scrape_url hands its record, or its exception, to
\* its caller: the /scrape handler, the loop of scrape_batch, or the
\* caller of scrape_url
SingleReturn(p) ==
    /\ pc[p] = "single_return"
    /\ LET e == loc[p].entry
           x == loc[p].exc
           r == loc[p].record
       IN CASE e = "scrape" ->
                /\ out' = [out EXCEPT ![p] =
                        IF x # NoExc THEN Http(500, x.msg, <<>>)
                        ELSE Http(200, r.error, <<r>>)]
                /\ pc' = [pc EXCEPT ![p] = "done"]
                /\ loc' = loc
            [] e = "scrape_batch" ->
                IF x # NoExc
                THEN /\ out' = [out EXCEPT ![p] = Http(500, x.msg, <<>>)]
                     /\ pc' = [pc EXCEPT ![p] = "done"]
                     /\ loc' = loc
                ELSE /\ out' = out
                     /\ pc' = [pc EXCEPT ![p] = "batch_loop"]
                     /\ loc' = [loc EXCEPT ![p].results = Append(@, r), ![p].idx = @ + 1]
            [] OTHER ->
                /\ out' = [out EXCEPT ![p] = IF x # NoExc THEN Raises(x) ELSE Returns(<<r>>)]
                /\ pc' = [pc EXCEPT ![p] = "done"]
                /\ loc' = loc
    /\ UNCHANGED <<mode, history, session, listeners, intercepted_data, limiter, now>>

\* scrape_urls returns self.results, or raises
UrlsReturn(p) ==
    /\ pc[p] = "urls_return"
    /\ out' = [out EXCEPT ![p] =
            IF loc[p].exc # NoExc THEN Raises(loc[p].exc) ELSE Returns(loc[p].results)]
    /\ pc' = [pc EXCEPT ![p] = "done"]
    /\ UNCHANGED <<mode, history, loc, session, listeners, intercepted_data, limiter, now>>

Next ==
    \E p \in Procs :
        \/ Call(p) \/ BatchLoop(p) \/ Classify(p) \/ Launch(p) \/ NewPage(p)
        \/ UrlsLoop(p) \/ Wait(p) \/ UrlsWait(p)
        \/ Attach(p) \/ Response(p) \/ Intercept(p) \/ Goto(p) \/ Settle(p) \/ Extract(p)
        \/ Fallback(p) \/ Detach(p) \/ AfterScrape(p) \/ Close(p)
        \/ SingleReturn(p) \/ UrlsReturn(p)

Spec == Init /\ [][Next]_vars

\* the API serving overlapping POST /scrape requests on its threads
NextThreads ==
    \E p \in Procs :
        \/ Call(p) \/ Classify(p) \/ Launch(p) \/ NewPage(p)
        \/ Attach(p) \/ Response(p) \/ Intercept(p) \/ Goto(p) \/ Settle(p) \/ Extract(p)
        \/ Fallback(p) \/ Detach(p) \/ AfterScrape(p) \/ Close(p)
        \/ SingleReturn(p)

SpecThreads == InitThreads /\ [][NextThreads]_vars

\* every entry point handed one URL, among them one that both scrapers
\* recognise
InitClassify == mode = "classify" /\ InitCommon
SpecClassify == InitClassify /\ [][Next]_vars

\* a caller of _parse_count, and the call
ParseCall(p) ==
    /\ pc[p] = "idle"
    /\ p = 1
    /\ mode = "parse"
    /\ \E platform \in Platforms, text \in CountTexts :
         loc' = [loc EXCEPT ![p] = [NoLoc EXCEPT !.entry = "_parse_count",
                                          !.platform = platform, !.text = text]]
    /\ pc' = [pc EXCEPT ![p] = "parse_count"]
    /\ UNCHANGED <<mode, history, session, listeners, intercepted_data, limiter, now, out>>

ParseCount(p) ==
    /\ pc[p] = "parse_count"
    /\ loc' = [loc EXCEPT ![p].count = parse_count(loc[p].platform, loc[p].text)]
    /\ pc' = [pc EXCEPT ![p] = "done"]
    /\ UNCHANGED <<mode, history, session, listeners, intercepted_data, limiter, now, out>>

InitParse == mode = "parse" /\ InitCommon
NextParse == \E p \in Procs : ParseCall(p) \/ ParseCount(p)

SpecParse == InitParse /\ [][NextParse]_vars

(***************************************************************************)
(* Payloads that carry several of the locations the structured-data        *)
(* extractors look at.  A payload is named by three indices, one per       *)
(* location; index 1 is "key absent".                                      *)
(***************************************************************************)
\* the dict with the keys of a and of b
Both(a, b) ==
    [k \in DOMAIN a \cup DOMAIN b |-> IF k \in DOMAIN a THEN a[k] ELSE b[k]]

PlayStats(n) == [stats |-> [playCount |-> PyInt(n * 100), diggCount |-> PyInt(n)]]
ItemInfos == <<
    EmptyDict,
    [itemInfo |-> EmptyDict],
    [itemInfo |-> [itemStruct |-> EmptyDict]],
    [itemInfo |-> [itemStruct |-> PlayStats(1)]] >>
SeoProps == <<
    EmptyDict,
    [seoProps |-> EmptyDict],
    [seoProps |-> [webVideoDetail |-> EmptyDict]],
    [seoProps |-> [webVideoDetail |-> PlayStats(2)]] >>
ItemLists == <<
    EmptyDict,
    [itemList |-> PyList(<<>>)],
    [itemList |-> PyList(<< PlayStats(3) >>)],
    [itemList |-> PyList(<< PlayStats(4), PlayStats(5) >>)] >>

LikeMedia(n) == [like_count |-> PyInt(n), play_count |-> PyInt(n * 100)]
ShortcodeMedias == <<
    EmptyDict,
    [shortcode_media |-> EmptyDict],
    [shortcode_media |-> LikeMedia(1)] >>
XdtShortcodeMedias == <<
    EmptyDict,
    [xdt_shortcode_media |-> EmptyDict],
    [xdt_shortcode_media |-> LikeMedia(2)] >>
Items == <<
    EmptyDict,
    [items |-> PyList(<<>>)],
    [items |-> PyList(<< LikeMedia(3) >>)],
    [items |-> PyList(<< LikeMedia(4), LikeMedia(5) >>)] >>

\* the indices of the payloads of a platform
Located(platform) ==
    IF platform = "tiktok"
    THEN (1..Len(ItemInfos)) \X (1..Len(SeoProps)) \X (1..Len(ItemLists))
    ELSE (1..Len(ShortcodeMedias)) \X (1..Len(XdtShortcodeMedias)) \X (1..Len(Items))

\* the payload of three indices; an Instagram payload has the key 'data'
\* when one of the two GraphQL locations is present
LocatedPayload(platform, ix) ==
    IF platform = "tiktok"
    THEN Both(Both(ItemInfos[ix[1]], SeoProps[ix[2]]), ItemLists[ix[3]])
    ELSE LET graph == Both(ShortcodeMedias[ix[1]], XdtShortcodeMedias[ix[2]])
         IN IF ix[1] = 1 /\ ix[2] = 1 THEN Items[ix[3]]
            ELSE Both([data |-> graph], Items[ix[3]])

\* a response body has been retained; scrape() reaches
\* "stats = self._parse_intercepted_data()"
ExtractCall(p) ==
    /\ pc[p] = "idle"
    /\ p = 1
    /\ mode = "extract"
    /\ \E platform \in Platforms :
        \E ix \in Located(platform) :
            loc' = [loc EXCEPT ![p] = [NoLoc EXCEPT !.entry = "_parse_intercepted_data",
                                             !.platform = platform, !.payload = ix]]
    /\ pc' = [pc EXCEPT ![p] = "parse_data"]
    /\ UNCHANGED <<mode, history, session, listeners, intercepted_data, limiter, now, out>>

\* _parse_intercepted_data on the retained payload
ParseData(p) ==
    /\ pc[p] = "parse_data"
    /\ loc' = [loc EXCEPT ![p].structured =
                    parse_intercepted_data(loc[p].platform,
                                           LocatedPayload(loc[p].platform, loc[p].payload)),
                          ![p].extracted = TRUE]
    /\ pc' = [pc EXCEPT ![p] = "done"]
    /\ UNCHANGED <<mode, history, session, listeners, intercepted_data, limiter, now, out>>

InitExtract == mode = "extract" /\ InitCommon
NextExtract == \E p \in Procs : ExtractCall(p) \/ ParseData(p)

SpecExtract == InitExtract /\ [][NextExtract]_vars

(***************************************************************************)
(* A process that builds SocialMediaScraper instances and calls            *)
(* scrape_urls on them, one call after another.  The instances share the   *)
(* module-global limiter.                                                  *)
(***************************************************************************)
\* _rate_limiter = None
NoLimiter == [max_requests |-> 0, request_count |-> 0, last_request_time |-> 0]

\* a get_rate_limiter that would build a limiter for every caller
get_rate_limiter_per_instance == RateLimiter(DefaultRequests)

\* get_rate_limiter(): the global instance, created on the first call
get_rate_limiter ==
    IF limiter = NoLimiter THEN RateLimiter(DefaultRequests) ELSE limiter

\* SocialMediaScraper(), whose __init__ fetches the limiter, and a call of
\* scrape_urls up to "self.results = []".  The caller keeps the number of
\* records the earlier calls returned; before is request_count at the call
ProcessCall(p) ==
    /\ pc[p] \in {"idle", "done"}
    /\ p = 1
    /\ mode = "process"
    /\ Len(history) < MaxCalls
    /\ limiter' = get_rate_limiter
    /\ \E us \in Arguments(mode) :
        loc' = [loc EXCEPT ![p] = [NoLoc EXCEPT
                    !.entry = "scrape_urls", !.args = us, !.urls = us,
                    !.before = limiter'.request_count,
                    !.earlier = loc[p].earlier + Len(out[p].data)]]
    /\ history' = Append(history, "scrape_urls")
    /\ pc' = [pc EXCEPT ![p] = "launch"]
    /\ out' = [out EXCEPT ![p] = NoOut]
    /\ UNCHANGED <<mode, session, listeners, intercepted_data, now>>

InitProcess ==
    /\ mode = "process"
    /\ pc = [p \in Procs |-> "idle"]
    /\ loc = [p \in Procs |-> NoLoc]
    /\ session = [p \in Procs |-> NoSession]
    /\ listeners = [p \in Procs |-> [tiktok |-> 0, instagram |-> 0]]
    /\ intercepted_data = [pl \in Platforms |-> NoData]
    /\ limiter = NoLimiter
    /\ history = <<>>
    /\ now = 1
    /\ out = [p \in Procs |-> NoOut]
NextProcess ==
    \E p \in Procs :
        \/ ProcessCall(p) \/ Launch(p) \/ NewPage(p)
        \/ UrlsLoop(p) \/ Wait(p) \/ UrlsWait(p)
        \/ Attach(p) \/ Response(p) \/ Intercept(p) \/ Goto(p) \/ Settle(p) \/ Extract(p)
        \/ Fallback(p) \/ Detach(p) \/ AfterScrape(p) \/ Close(p) \/ UrlsReturn(p)

SpecProcess == InitProcess /\ [][NextProcess]_vars

\* scrape_urls on pages whose response bodies may come in late
InitLate == mode = "late" /\ InitCommon
NextLate ==
    \E p \in Procs :
        \/ Call(p) \/ Launch(p) \/ NewPage(p)
        \/ UrlsLoop(p) \/ Wait(p) \/ UrlsWait(p)
        \/ Attach(p) \/ Response(p) \/ Intercept(p) \/ Goto(p) \/ Settle(p) \/ Extract(p)
        \/ Fallback(p) \/ Detach(p) \/ AfterScrape(p) \/ Close(p) \/ UrlsReturn(p)

SpecLate == InitLate /\ [][NextLate]_vars

\* the API serving long lists posted to /scrape/batch
InitBatch == mode = "batch" /\ InitCommon
NextBatch ==
    \E p \in Procs : Call(p) \/ BatchLoop(p) \/ Classify(p) \/ SingleReturn(p)

SpecBatch == InitBatch /\ [][NextBatch]_vars

\* a client of the RateLimiter
InitLimiter == mode = "limiter" /\ InitCommon
NextLimiter ==
    \E p \in Procs : LimiterCall(p) \/ Wait(p) \/ WaitReturn(p) \/ Reset(p)

SpecLimiter == InitLimiter /\ [][NextLimiter]_vars

(***************************************************************************)
(* Properties.                                                             *)
(***************************************************************************)
\* positions between create_stealth_browser and safe_close
InSession ==
    {"new_page", "urls_loop", "urls_wait", "attach", "goto", "settle", "extract",
     "fallback", "detach", "after_scrape", "close"}
\* positions of a flow whose entry point (or one call of scrape_single_url in
\* a batch) has been left
Left == {"single_return", "urls_return", "batch_loop", "classify", "launch", "done"}

\* C1: a browser session that was opened has had safe_close called on it
\* exactly once when its entry point is left, on every path (return,
\* rate-limit break, exception), and never before or more than once.
C1_TeardownOnce ==
    \A p \in Procs :
        session[p].opened =>
            /\ pc[p] \in InSession => session[p].closes = 0
            /\ pc[p] \in Left => session[p].closes = 1

\* scrape_url has raised out of page creation, its session closed once
C1_Witness ==
    \E p \in Procs :
        /\ pc[p] = "done"
        /\ out[p].kind = "raise"
        /\ out[p].at = "new_page"
        /\ session[p].opened
        /\ session[p].closes = 1

\* C2: a navigation that hit its timeout does not fail the scrape: the
\* structured-data extractor still runs and the stats scrape() returns carry
\* no error produced by the timeout.
C2_TimeoutRecoverable ==
    \A p \in Procs :
        (pc[p] = "after_scrape" /\ loc[p].timeout) =>
            /\ loc[p].extracted
            /\ loc[p].stats.error = NoError

\* C3: overlapping scrape_single_url calls have independent payload slots:
\* the extractor of one call never reads a payload intercepted on the other
\* call's page, and a payload a call has captured is not erased or replaced
\* by the other call while the first is still to read it.
C3_IndependentSlots ==
    /\ [](\A p \in Procs : loc[p].extracted => loc[p].read \in {0, p})
    /\ [][\A p \in Procs :
            (/\ pc[p] \in {"goto", "settle", "extract"}
             /\ intercepted_data[loc[p].platform].owner = p)
            => intercepted_data'[loc[p].platform].owner = p]_vars

\* C4: an exception raised after the browser session was opened does not
\* reach the caller of the entry point; the caller gets an error record
\* with the exception's message and a zeroed quadruple.
C4_NoPropagation ==
    \A p \in Procs :
        (pc[p] = "done" /\ session[p].opened) =>
            /\ out[p].kind # "raise"
            /\ \A i \in 1..Len(out[p].data) :
                  out[p].data[i].error \in {NewPageMsg, TimeoutMsg, NavigationMsg,
                                            EvaluateMsg, TypeErrorMsg}
                  => /\ IsZero(out[p].data[i].views)
                     /\ IsZero(out[p].data[i].likes)
                     /\ IsZero(out[p].data[i].comments)
                     /\ IsZero(out[p].data[i].shares)

\* C5: in every record an entry point hands to its caller, views, likes,
\* comments and shares are non-negative integers.
C5_CountsAreNaturals ==
    \A p \in Procs :
        \A i \in 1..Len(out[p].data) :
            /\ IsCount(out[p].data[i].views)
            /\ IsCount(out[p].data[i].likes)
            /\ IsCount(out[p].data[i].comments)
            /\ IsCount(out[p].data[i].shares)

\* C6: no browser is launched on behalf of URLs classified as unknown: a
\* call whose URLs are all unknown launches none.
C6_UnknownOpensNothing ==
    \A p \in Procs :
        (/\ loc[p].urls # <<>>
         /\ \A i \in 1..Len(loc[p].urls) : detect_platform(loc[p].urls[i]) = "unknown")
        => session[p].launches = 0

\* C7: in a batch every supported URL is scraped in a session of its own:
\* no browser session serves two URLs.
C7_FreshSessionPerUrl ==
    \A p \in Procs : session[p].served <= 1

\* C8: for both platforms a structured result whose views and likes are
\* numbers is returned without the HTML fallback exactly when views > 0 or
\* likes > 0.
C8_AcceptViewsOrLikes ==
    \A p \in Procs :
        (/\ loc[p].extracted
         /\ ~loc[p].structured.isNone
         /\ ~GtRaises(loc[p].structured.q.views)
         /\ ~GtRaises(loc[p].structured.q.likes))
        => ((pc[p] # "fallback" /\ ~loc[p].html.ran)
              <=> (Gt0(loc[p].structured.q.views) \/ Gt0(loc[p].structured.q.likes)))

\* the structured-data extractor gave nothing usable: no result, or a result
\* with views = 0 and likes = 0
Rejected(p) ==
    /\ loc[p].extracted
    /\ \/ loc[p].structured.isNone
       \/ IsZero(loc[p].structured.q.views) /\ IsZero(loc[p].structured.q.likes)

\* the record the flow built last
Produced(r, e) == IF e = "scrape_urls" THEN r.results[Len(r.results)] ELSE r.record

\* C9: when the structured result has views = 0 and likes = 0, or there is
\* none, the HTML fallback is run, scrape() returns the fallback's quadruple
\* and the record built from it carries that quadruple.
C9_RejectedGoesToFallback ==
    /\ [](\A p \in Procs :
            Rejected(p) =>
                \/ pc[p] = "fallback"
                \/ loc[p].html.ran /\ loc[p].stats = Stats(loc[p].html.q, NoError))
    /\ [][\A p \in Procs :
            (Rejected(p) /\ pc[p] = "after_scrape" /\ pc'[p] # "after_scrape")
            => LET r == Produced(loc'[p], loc[p].entry)
               IN Quad(r.views, r.likes, r.comments, r.shares) = loc[p].html.q]_vars

\* the classification the patterns a URL matches call for
Classified(url) ==
    IF url.tt # {} THEN "tiktok" ELSE IF url.ig # {} THEN "instagram" ELSE "unknown"
\* positions inside TikTokScraper.scrape or InstagramScraper.scrape
InScraper == {"goto", "settle", "extract", "fallback", "detach"}
\* positions at which the flow holds the classification of its URL
HasPlatform == InScraper \cup {"launch", "new_page", "attach", "after_scrape"}

\* C19: detect_platform has three outcomes: tiktok whenever a TikTok pattern
\* matches (even if an Instagram pattern matches too), instagram when none
\* does and an Instagram pattern matches, unknown otherwise; and the scraper
\* the orchestrator runs is the one the classification names.
C19_ClassifierDispatch ==
    \A p \in Procs :
        /\ (pc[p] \in HasPlatform /\ loc[p].entry # "scrape_urls")
              => loc[p].platform = Classified(Url(p))
        /\ (pc[p] \in {"attach", "after_scrape"} \cup InScraper)
              => loc[p].platform = Classified(Url(p))
        /\ pc[p] \in InScraper =>
              /\ Classified(Url(p)) \in Platforms
              /\ listeners[p][Classified(Url(p))] = 1
              /\ \A other \in Platforms \ {Classified(Url(p))} : listeners[p][other] = 0
        /\ (pc[p] = "single_return" /\ Classified(Url(p)) = "unknown")
              => loc[p].record.platform = "unknown" /\ session[p].launches = 0

\* a URL matching the patterns of both platforms is inside the TikTok scraper
C19_Witness ==
    \E p \in Procs :
        /\ pc[p] = "extract"
        /\ Url(p) = UrlBoth
        /\ loc[p].platform = "tiktok"
        /\ listeners[p]["tiktok"] = 1 /\ listeners[p]["instagram"] = 0

\* the body of the response parses and, for Instagram, mentions a marker
ParsesWithMarker(r) ==
    /\ r.body # 0
    /\ r.platform = "instagram" => MentionsMarker(InstagramPayloads[r.body])
\* a qualifying response as the claim words it: from an API endpoint, served
\* as JSON
QualifiesAsJson(r) == r.api /\ IsJson(r.ctype) /\ ParsesWithMarker(r)
\* a qualifying response: Instagram's interceptor takes a script payload too
Qualifies(r) ==
    /\ r.api
    /\ IsJson(r.ctype) \/ (r.platform = "instagram" /\ IsJavascript(r.ctype))
    /\ ParsesWithMarker(r)

\* the interceptor has run on the response that arrived for flow p
Intercepted(p) == loc[p].response.pending /\ ~loc'[p].response.pending
\* it retained the body if the response qualified, changed nothing if not,
\* and did not move the scrape
InterceptEffect(p, qualified) ==
    /\ IF qualified
       THEN intercepted_data'[loc[p].response.platform].body = loc[p].response.body
       ELSE intercepted_data' = intercepted_data
    /\ pc' = pc
    /\ loc'[p].stats = loc[p].stats /\ loc'[p].exc = loc[p].exc
\* nothing else in a scrape touches the retained payload
OnlyInterceptorWrites(p) ==
    (pc[p] \in InScraper /\ pc'[p] \in InScraper /\ ~loc[p].response.pending)
        => intercepted_data'[loc[p].platform] = intercepted_data[loc[p].platform]
\* the retained payload is empty when a scrape starts
StartsEmpty(p) ==
    (pc[p] = "attach" /\ pc'[p] = "goto") => intercepted_data'[loc[p].platform] = NoData

Parsed(p) == loc[p].entry = "_parse_count" /\ pc[p] = "done"

\* C17: _parse_count is total: for every text (empty, not numeric, a suffix
\* without digits, several decimal points, "INF" or "1e999", a leading
\* minus) it returns a non-negative integer and never raises.
C17_ParseCountTotal ==
    \A p \in Procs :
        Parsed(p) => ~loc[p].count.raises /\ loc[p].count.v >= 0

\* the text as the claim reads it: thousands commas and whitespace dropped,
\* letters in upper case; its multiplier and the number before the suffix
CleanText(text) == SelectSeq(Upper(text), LAMBDA c : c \notin {",", " ", "\n"})
SuffixMultiplier(text) ==
    IF text = <<>> THEN 1
    ELSE CASE text[Len(text)] = "K" -> 1000
           [] text[Len(text)] = "M" -> 1000000
           [] text[Len(text)] = "B" -> 1000000000
           [] OTHER -> 1
NumberPart(text) == IF SuffixMultiplier(text) > 1 THEN DropLast(text) ELSE text
\* digits with at most one decimal point
IsDecimal(number) ==
    /\ \A i \in 1..Len(number) : number[i] \in DigitChars \cup {"."}
    /\ Cardinality(Positions(number, ".")) <= 1
    /\ \E i \in 1..Len(number) : number[i] \in DigitChars
\* the decimal number times the multiplier, the fraction dropped
Decimals(number) ==
    IF Positions(number, ".") = {} THEN 0
    ELSE Len(number) - (CHOOSE i \in Positions(number, ".") : TRUE)
ExactCount(number, multiplier) ==
    IF multiplier >= Pow10(Decimals(number))
    THEN DigitsValue(Remove(number, ".")) * (multiplier \div Pow10(Decimals(number)))
    ELSE DigitsValue(Remove(number, ".")) \div (Pow10(Decimals(number)) \div multiplier)

\* C18: for a decimal number with optional thousands commas and whitespace
\* and an optional K, M or B suffix in either case, _parse_count returns the
\* number times the multiplier truncated to an integer, and the TikTok and
\* Instagram parsers return the same.
C18_ParseCountExact ==
    \A p \in Procs :
        Parsed(p) =>
            /\ TikTok_parse_count(loc[p].text) = Instagram_parse_count(loc[p].text)
            /\ IsDecimal(NumberPart(CleanText(loc[p].text))) =>
                  loc[p].count = Returned(ExactCount(NumberPart(CleanText(loc[p].text)),
                                                     SuffixMultiplier(CleanText(loc[p].text))))

\* the stats object of a TikTok payload of shape itemInfo.itemStruct.stats
HasStatsShape(d) ==
    /\ "itemInfo" \in DOMAIN d
    /\ IsDict(d["itemInfo"]) /\ "itemStruct" \in DOMAIN d["itemInfo"]
    /\ IsDict(d["itemInfo"]["itemStruct"])
    /\ "stats" \in DOMAIN d["itemInfo"]["itemStruct"]
CountOf(d, key) ==
    LET stats == d["itemInfo"]["itemStruct"]["stats"]
    IN IF key \in DOMAIN stats THEN stats[key] ELSE PyInt(0)
CountsOf(d) ==
    Quad(CountOf(d, "playCount"), CountOf(d, "diggCount"),
         CountOf(d, "commentCount"), CountOf(d, "shareCount"))

\* the TikTok scrape of flow p has run its structured-data extractor on a
\* retained payload of that shape
ExtractedTikTok(p) ==
    /\ loc[p].platform = "tiktok"
    /\ loc[p].extracted
    /\ pc[p] \in {"fallback", "detach", "after_scrape"}
    /\ intercepted_data["tiktok"].body > 0
    /\ HasStatsShape(TikTokPayloads[intercepted_data["tiktok"].body])

\* C16: from a retained TikTok payload of shape itemInfo.itemStruct.stats the
\* structured-data extractor yields views = playCount, likes = diggCount,
\* comments = commentCount, shares = shareCount, an absent count read as 0;
\* when playCount > 0 the record built from scrape()'s result holds these
\* values and the HTML fallback is not run.
C16_TikTokStatsMapping ==
    /\ [](\A p \in Procs :
            ExtractedTikTok(p) =>
                LET q == CountsOf(TikTokPayloads[intercepted_data["tiktok"].body])
                IN /\ loc[p].structured = SomeStats(q)
                   /\ (~GtRaises(q.views) /\ Gt0(q.views)) =>
                         /\ ~loc[p].html.ran
                         /\ pc[p] # "fallback"
                         /\ loc[p].stats = Stats(q, NoError))
    /\ [][\A p \in Procs :
            (ExtractedTikTok(p) /\ pc[p] = "after_scrape" /\ pc'[p] # "after_scrape")
            => LET q == CountsOf(TikTokPayloads[intercepted_data["tiktok"].body])
                   r == Produced(loc'[p], loc[p].entry)
               IN (~GtRaises(q.views) /\ Gt0(q.views))
                  => Quad(r.views, r.likes, r.comments, r.shares) = q]_vars

\* a payload with playCount > 0 and no shareCount was extracted and returned
C16_Witness ==
    \E p \in Procs :
        /\ ExtractedTikTok(p)
        /\ pc[p] = "after_scrape"
        /\ LET d == TikTokPayloads[intercepted_data["tiktok"].body]
           IN /\ Gt0(CountOf(d, "playCount"))
              /\ "shareCount" \notin DOMAIN d["itemInfo"]["itemStruct"]["stats"]
              /\ loc[p].stats.shares = PyInt(0)
              /\ loc[p].stats.views = CountOf(d, "playCount")

\* the texts of the entries that are not blank among entries i..n of a list
RECURSIVE TextsFrom(_, _, _)
TextsFrom(us, i, n) ==
    IF i > n THEN <<>>
    ELSE IF us[i].name = "" THEN TextsFrom(us, i + 1, n)
    ELSE <<us[i].name>> \o TextsFrom(us, i + 1, n)

\* C14: POST /scrape/batch scrapes at most 10 URLs: only the first 10
\* entries of the list are considered, in order, blank ones are skipped,
\* and the data of the response holds one record for every URL scraped, in
\* the order of the list.
C14_BatchOfTen ==
    \A p \in Procs :
        loc[p].entry = "scrape_batch" =>
            /\ Len(loc[p].results) <= 10
            /\ (out[p].kind = "http" /\ out[p].status = 200) =>
                  LET us == loc[p].args
                      n == IF Len(us) < 10 THEN Len(us) ELSE 10
                  IN /\ Len(out[p].data) <= 10
                     /\ [i \in 1..Len(out[p].data) |-> out[p].data[i].url]
                            = TextsFrom(us, 1, n)

\* a list of more than ten entries, some of the first ten blank and the one
\* past the tenth not, was answered with the records of the others
C14_Witness ==
    \E p \in Procs :
        /\ out[p].kind = "http" /\ out[p].status = 200
        /\ Len(loc[p].args) > 10
        /\ loc[p].args[11].name # ""
        /\ \E i \in 1..10 : loc[p].args[i].name = ""
        /\ \E i \in 1..10 : loc[p].args[i].name # "" /\ loc[p].args[i].spaces > 0
        /\ Len(out[p].data) > 1

\* no field of the quadruple is a positive number
NoPositive(q) ==
    ~Gt0(q.views) /\ ~Gt0(q.likes) /\ ~Gt0(q.comments) /\ ~Gt0(q.shares)

\* scrape() returned without an exception, and neither the structured
\* extractor nor the HTML fallback yielded a positive field
Miss(p) ==
    /\ loc[p].extracted
    /\ loc[p].structured.isNone \/ NoPositive(loc[p].structured.q)
    /\ loc[p].html.ran
    /\ NoPositive(loc[p].html.q)
    /\ loc[p].stats.error = NoError
    /\ loc[p].exc.at = "none"

\* C15: when neither extractor yields a positive field and no exception
\* occurred, the record built from scrape()'s result has views = likes =
\* comments = shares = 0 and carries no error field.
C15_MissIsAllZero ==
    [][\A p \in Procs :
         (Miss(p) /\ pc[p] = "after_scrape" /\ pc'[p] # "after_scrape")
         => LET r == Produced(loc'[p], loc[p].entry)
            IN /\ Quad(r.views, r.likes, r.comments, r.shares) = ZeroQuad
               /\ r.error = NoError]_vars

\* C10: in a batch a failure while handling one URL stays in that URL's
\* record: unless the rate limit stopped the loop, the batch returns one
\* record for every URL.
C10_FailureContained ==
    \A p \in Procs :
        (/\ pc[p] = "done"
         /\ loc[p].entry \in {"scrape_batch", "scrape_urls"}
         /\ loc[p].urls # <<>>
         /\ ~loc[p].limited
         /\ ~SummaryRaises(loc[p].results))
        => /\ out[p].kind # "raise"
           /\ Len(out[p].data) = Len(loc[p].urls)

\* positions of scrape_urls inside the work for one URL, once wait() has
\* returned
Working == {"attach", "goto", "settle", "extract", "fallback", "detach", "after_scrape"}

\* C11: scrape_urls starts the work for a URL (pacing, classification,
\* navigation) only while request_count is below max_requests; at the
\* ceiling the loop halts, and the records produced so far are returned
\* unchanged, none of them given an error.
C11_CeilingHaltsBatch ==
    /\ [](\A p \in Procs :
            loc[p].entry = "scrape_urls" =>
                /\ pc[p] \in {"wait", "urls_wait"} =>
                      limiter.request_count < limiter.max_requests
                /\ pc[p] \in Working => limiter.request_count <= limiter.max_requests
                /\ (pc[p] = "done" /\ loc[p].limited) =>
                      /\ out[p].kind = "return"
                      /\ out[p].data = loc[p].results
                      /\ Len(out[p].data) = loc[p].idx - 1
                      /\ Len(out[p].data) < Len(loc[p].urls))
    /\ [][\A p \in Procs :
            (/\ pc[p] = "urls_loop"
             /\ loc[p].idx <= Len(loc[p].urls)
             /\ limiter.request_count >= limiter.max_requests)
            => /\ pc'[p] = "close"
               /\ loc'[p].limited
               /\ loc'[p].results = loc[p].results]_vars
    /\ [][\A p \in Procs :
            (loc[p].entry = "scrape_urls" /\ loc'[p].entry = "scrape_urls")
            => /\ Len(loc'[p].results) >= Len(loc[p].results)
               /\ SubSeq(loc'[p].results, 1, Len(loc[p].results)) = loc[p].results]_vars

\* a batch was cut short by the ceiling and its record was returned
C11_Witness ==
    \E p \in Procs :
        /\ pc[p] = "done"
        /\ loc[p].limited
        /\ Len(out[p].data) >= 1
        /\ out[p].data[1].platform \in Platforms

\* wait() calls completed since the limiter was created or last reset
RECURSIVE WaitsSinceReset(_)
WaitsSinceReset(h) ==
    IF h = <<>> \/ h[Len(h)] = "reset" THEN 0
    ELSE 1 + WaitsSinceReset(SubSeq(h, 1, Len(h) - 1))

\* C12: whatever wait() and reset() calls were made, can_make_request() is
\* true exactly when fewer than max_requests wait() calls have completed
\* since the limiter was created or last reset.
C12_CeilingCountsWaits ==
    /\ limiter.max_requests >= 1
    /\ can_make_request <=> WaitsSinceReset(history) < limiter.max_requests

\* the ceiling was reached by wait() calls alone and a reset() lifted it
C12_Witness ==
    /\ Len(history) = limiter.max_requests + 1
    /\ history[Len(history)] = "reset"
    /\ \A i \in 1..limiter.max_requests : history[i] = "wait"
    /\ can_make_request

\* C13: the first wait() after creation or reset() does not sleep; a later
\* wait() returns when at least the delay it drew, a value in
\* [min_delay, max_delay], has passed since the previous stamp; every
\* wait() adds exactly one to request_count.
C13_WaitPaces ==
    /\ [](\A p \in Procs :
            pc[p] = "stamp" =>
                IF history = <<>> \/ history[Len(history)] = "reset"
                THEN loc[p].slept = 0 /\ loc[p].delay = 0
                ELSE /\ loc[p].delay \in MinDelay..MaxDelay
                     /\ now - limiter.last_request_time >= loc[p].delay)
    /\ [][\A p \in Procs :
            (pc[p] = "stamp" /\ pc'[p] # "stamp")
            => /\ limiter'.request_count = limiter.request_count + 1
               /\ limiter'.last_request_time = now
               /\ now' = now]_vars

\* a later wait() has slept for what was left of its delay
C13_Witness ==
    \E p \in Procs :
        /\ pc[p] = "stamp"
        /\ history # <<>>
        /\ history[Len(history)] = "wait"
        /\ loc[p].slept > 0
        /\ now - limiter.last_request_time = loc[p].delay

\* C21: in every scrape() the response listener is attached before the
\* navigation is issued and is detached when the scrape concludes, on every
\* path (accepted payload, fallback, miss, exception in navigation or
\* extraction): while a flow is inside scrape() its page carries exactly the
\* one listener of the platform being scraped, and outside scrape() its page
\* carries none, whatever scrapes the page has served before.
C21_ListenerScoped ==
    \A p \in Procs : \A pl \in Platforms :
        listeners[p][pl] = IF pc[p] \in InScraper /\ loc[p].platform = pl THEN 1 ELSE 0

\* the second scrape of a batch is about to navigate on the page whose first
\* scrape ended in a navigation timeout
C21_Witness ==
    \E p \in Procs :
        /\ loc[p].entry = "scrape_urls"
        /\ pc[p] = "goto"
        /\ Len(loc[p].results) = 1
        /\ loc[p].results[1].error = TimeoutMsg
        /\ listeners[p][loc[p].platform] = 1

\* C27: whenever safe_close has run on a session, both browser.close() and
\* playwright.stop() have been invoked, also when browser.close() raised;
\* safe_close itself never raises, so the record or exception of the scrape
\* is what its caller receives.
C27_BothReleased ==
    \A p \in Procs :
        (session[p].opened /\ session[p].closes > 0) => session[p].stops = session[p].closes

\* the part of C27 the code keeps: teardown leaves the record or exception
\* produced by the scrape unchanged
C27_TeardownKeepsOutcome ==
    [][\A p \in Procs :
        (pc[p] = "close" /\ pc'[p] # "close")
        => /\ loc'[p] = loc[p]
           /\ pc'[p] \in {"single_return", "urls_return"}]_vars

\* the first of three candidate objects that is a non-empty object
FirstFound(a, b, c) == IF Truthy(a) THEN a ELSE IF Truthy(b) THEN b ELSE c
\* the first element of a list, or nothing
FirstOf(list) == IF IsList(list) /\ Len(list.list) > 0 THEN list.list[1] ELSE EmptyDict
\* the extractor of flow p has run on a payload of platform
Located_done(p, platform) ==
    /\ loc[p].entry = "_parse_intercepted_data"
    /\ loc[p].platform = platform
    /\ pc[p] = "done"

\* C23: the TikTok extractor uses the first of itemInfo.itemStruct,
\* seoProps.webVideoDetail and itemList[0] at which an object is found, and
\* yields that object's stats; it yields no data only when none is found.
C23_FirstLocationFound ==
    \A p \in Procs :
        Located_done(p, "tiktok") =>
            LET data == LocatedPayload("tiktok", loc[p].payload)
                item == FirstFound(
                            Get(Get(data, "itemInfo", EmptyDict), "itemStruct", EmptyDict),
                            Get(Get(data, "seoProps", EmptyDict), "webVideoDetail", EmptyDict),
                            FirstOf(Get(data, "itemList", PyList(<<>>))))
            IN IF Truthy(item)
               THEN /\ ~loc[p].structured.isNone
                    /\ loc[p].structured.q.views = item.stats.playCount
                    /\ loc[p].structured.q.likes = item.stats.diggCount
               ELSE loc[p].structured.isNone

\* C24: the Instagram extractor reads the stats from the earliest of
\* data.shortcode_media, data.xdt_shortcode_media and items[0] that the
\* payload contains.
C24_EarliestLocationWins ==
    \A p \in Procs :
        Located_done(p, "instagram") =>
            LET data == LocatedPayload("instagram", loc[p].payload)
                media == FirstFound(
                            Get(Get(data, "data", EmptyDict), "shortcode_media", EmptyDict),
                            Get(Get(data, "data", EmptyDict), "xdt_shortcode_media", EmptyDict),
                            FirstOf(Get(data, "items", PyList(<<>>))))
            IN IF Truthy(media)
               THEN /\ ~loc[p].structured.isNone
                    /\ loc[p].structured.q.likes = media.like_count
                    /\ loc[p].structured.q.views = media.play_count
               ELSE loc[p].structured.isNone

\* C25: in the Instagram HTML fallback the structured-data scripts, which
\* run after the meta description, only fill fields that are still 0: a
\* likes, comments or views value that the meta description set to a
\* positive number is the value the fallback returns, and a malformed script
\* block changes nothing.
C25_ScriptsFillOnlyZero ==
    \A p \in Procs :
        (loc[p].platform = "instagram" /\ loc[p].html.ran) =>
            LET meta == Instagram_meta(InstagramDoms[loc[p].html.dom].meta).q
            IN \A field \in {"likes", "comments", "views"} :
                (IsCount(meta[field]) /\ meta[field].v > 0)
                => loc[p].html.q[field] = meta[field]

\* the navigations a batch has issued when flow p is at page.goto: one for
\* every record of a supported URL, and the one being issued
Navigations(p) ==
    Len(SelectSeq(loc[p].results, LAMBDA r : r.platform # "unknown")) + 1

\* C26: in a batch run, of scrape_urls or of POST /scrape/batch, every
\* navigation comes after a completed rate_limiter.wait() of its iteration:
\* when a navigation is issued the limiter has counted at least as many
\* waits as the batch has issued navigations, the last wait has just
\* stamped the clock, and the navigations do not exceed max_requests.
C26_NavigationAfterWait ==
    \A p \in Procs :
        (loc[p].entry \in {"scrape_urls", "scrape_batch"} /\ pc[p] = "goto") =>
            /\ limiter.request_count >= Navigations(p)
            /\ limiter.last_request_time = now
            /\ Navigations(p) <= limiter.max_requests

\* positions of a scrape_urls iteration after its wait() and before its
\* record is appended
InIteration == InScraper \cup {"attach", "after_scrape"}

\* C28: in scrape_urls request_count increases by exactly one for every URL
\* whose iteration starts, unsupported URLs and URLs whose scrape ends in an
\* error record included: during the call the increase since its start is
\* the number of records plus the iteration under way, and when the call
\* returns normally the increase equals the number of records returned.
C28_CountMatchesRecords ==
    /\ [](\A p \in Procs :
            loc[p].entry = "scrape_urls" =>
                /\ limiter.request_count - loc[p].before =
                        Len(loc[p].results) + (IF pc[p] \in InIteration THEN 1 ELSE 0)
                /\ (pc[p] = "done" /\ out[p].kind = "return")
                   => Len(out[p].data) = limiter.request_count - loc[p].before)
    /\ [][\A p \in Procs :
            (pc[p] = "urls_wait" /\ pc'[p] # "urls_wait")
            => limiter'.request_count = limiter.request_count + 1]_vars

\* a later call of the process, started with one request counted, has
\* returned the record of an unsupported URL and an error record
C28_Witness ==
    \E p \in Procs :
        /\ pc[p] = "done"
        /\ out[p].kind = "return"
        /\ loc[p].before = 1
        /\ Len(out[p].data) = 2
        /\ \E i, j \in 1..2 :
            /\ out[p].data[i].platform = "unknown"
            /\ out[p].data[j].platform # "unknown"
            /\ out[p].data[j].error = TimeoutMsg
        /\ limiter.request_count = 3

\* C29: every SocialMediaScraper of a process gets the same RateLimiter and
\* scrape_urls never resets it: request_count never decreases and the
\* ceiling stays what it was; the URLs processed by all scrape_urls calls
\* of the process together never exceed max_requests; a call started with
\* the limiter exhausted returns an empty list.
C29_SharedLimiter ==
    /\ [][/\ limiter'.request_count >= limiter.request_count
          /\ limiter # NoLimiter => limiter'.max_requests = limiter.max_requests]_vars
    /\ [](\A p \in Procs :
            loc[p].entry = "scrape_urls" =>
                /\ loc[p].earlier + Len(loc[p].results) <= limiter.max_requests
                /\ limiter.request_count <= limiter.max_requests
                /\ (pc[p] = "done" /\ out[p].kind = "return"
                        /\ loc[p].before >= limiter.max_requests)
                   => out[p].data = <<>>)

\* the third call of a process finds the limiter exhausted by the two calls
\* before it, which returned max_requests records, and returns an empty list
C29_Witness ==
    \E p \in Procs :
        /\ Len(history) = 3
        /\ pc[p] = "done"
        /\ out[p].kind = "return"
        /\ out[p].data = <<>>
        /\ loc[p].urls # <<>>
        /\ loc[p].before = limiter.max_requests
        /\ loc[p].earlier = limiter.max_requests

\* C22: a payload retained during the scrape of one URL is owned by that
\* scrape: the structured-data extractor run for a URL of a scrape_urls batch
\* reads either nothing or a payload captured from a response to that URL,
\* also when the callback of an earlier URL was still awaiting its response
\* body when that scrape ended.
C22_PayloadOwnedByScrape ==
    \A p \in Procs :
        (loc[p].entry = "scrape_urls" /\ loc[p].extracted)
        => loc[p].read_url \in {0, loc[p].idx}

====
